---- MODULE Spec2Model ----
(***************************************************************************)
(* EchoVerse backend: the story-narration core of src/app.py.              *)
(*                                                                         *)
(*   analyze_story_content  (app.py 1465-1604)  text -> segments           *)
(*   story_narration_merged (app.py 1293-1463)  segments -> merged audio   *)
(*                                                                         *)
(* Text representation.  A character is a one-character string.  A token   *)
(* is a non-empty sequence of characters: either a maximal run of word     *)
(* characters (\w+) or a single non-word character (a blank, a quote, a    *)
(* parenthesis ...).  A line is a sequence of tokens; its string is the    *)
(* concatenation of its tokens (Flat).  A text is a sequence of lines      *)
(* (the result of text.split('\n')).                                       *)
(***************************************************************************)
EXTENDS Integers, Sequences, FiniteSets, TLC

VARIABLES
    \* ---- analyze_story_content, one call, one loop iteration per step ----
    lines,                 \* the lines of the text consumed by the loop so far
    segments,              \* segments = []                      (app.py 1512)
    character_voices,      \* character_voices = {}              (app.py 1513)
    current_voice_index,   \* current_voice_index = 1            (app.py 1515)
    a_pc,                  \* "loop" | "returned"
    \* ---- story_narration_merged, one record per request ----
    req,                   \* request id -> local state of the handler
    temp_dir,              \* temp/ directory: path -> audio data
    audio_dir,             \* audio_files/ directory: path -> merged audio
    audio_history,         \* rows of table audio_history
    downloads,             \* rows of table downloads
    clock,                 \* datetime.now() at one-second resolution
    env                    \* the deployment: is tts set, is pydub installed

vars == << lines, segments, character_voices, current_voice_index, a_pc,
           req, temp_dir, audio_dir, audio_history, downloads, clock, env >>

analyze_vars == << lines, segments, character_voices, current_voice_index, a_pc >>
merged_vars == << req, temp_dir, audio_dir, audio_history, downloads, clock, env >>

-----------------------------------------------------------------------------
(* Characters and Python's str methods                                     *)

LowerLetters == << "a","b","c","d","e","f","g","h","i","j","k","l","m",
                   "n","o","p","q","r","s","t","u","v","w","x","y","z" >>
UpperLetters == << "A","B","C","D","E","F","G","H","I","J","K","L","M",
                   "N","O","P","Q","R","S","T","U","V","W","X","Y","Z" >>
Digits == << "0","1","2","3","4","5","6","7","8","9" >>

Range(s) == { s[i] : i \in DOMAIN s }

IsLower(c) == c \in Range(LowerLetters)
IsUpper(c) == c \in Range(UpperLetters)
IsCased(c) == IsLower(c) \/ IsUpper(c)
IsWordChar(c) == IsCased(c) \/ c \in Range(Digits) \/ c = "_"
IsSpaceChar(c) == c = " "

\* str.lower() / str.upper() on one character
LowerChar(c) ==
    IF IsUpper(c) THEN LowerLetters[CHOOSE i \in DOMAIN UpperLetters : UpperLetters[i] = c]
    ELSE c
UpperChar(c) ==
    IF IsLower(c) THEN UpperLetters[CHOOSE i \in DOMAIN LowerLetters : LowerLetters[i] = c]
    ELSE c

\* str.lower()
Lower(s) == [ i \in DOMAIN s |-> LowerChar(s[i]) ]

\* str.title(): a cased character is upper-cased when the previous character
\* is not cased, lower-cased otherwise; uncased characters are kept.
Title(s) ==
    [ i \in DOMAIN s |->
        IF IsCased(s[i])
        THEN IF i > 1 /\ IsCased(s[i-1]) THEN LowerChar(s[i]) ELSE UpperChar(s[i])
        ELSE s[i] ]

\* str(n) for a natural number
RECURSIVE Str(_)
Str(n) == IF n < 10 THEN << Digits[n + 1] >>
          ELSE Str(n \div 10) \o << Digits[(n % 10) + 1] >>

\* s.startswith(p) / s.endswith(p) / p in s
StartsWith(s, p) == Len(p) <= Len(s) /\ SubSeq(s, 1, Len(p)) = p
EndsWith(s, p) == Len(p) <= Len(s) /\ SubSeq(s, Len(s) - Len(p) + 1, Len(s)) = p
Contains(s, p) ==
    \/ p = << >>
    \/ \E i \in 0 .. (Len(s) - Len(p)) :
          s[i + 1] = p[1] /\ SubSeq(s, i + 1, i + Len(p)) = p

\* the string of a token sequence
RECURSIVE Flat(_)
Flat(toks) == IF toks = << >> THEN << >> ELSE Head(toks) \o Flat(Tail(toks))

\* str.strip() on a string and on a token sequence
RECURSIVE LStrip(_)
LStrip(s) == IF s # << >> /\ IsSpaceChar(Head(s)) THEN LStrip(Tail(s)) ELSE s
RECURSIVE RStrip(_)
RStrip(s) == IF s # << >> /\ IsSpaceChar(s[Len(s)]) THEN RStrip(SubSeq(s, 1, Len(s) - 1)) ELSE s
Strip(s) == RStrip(LStrip(s))

IsWord(tok) == tok # << >> /\ \A i \in DOMAIN tok : IsWordChar(tok[i])
IsSpace(tok) == tok = << " " >>

RECURSIVE LStripToks(_)
LStripToks(l) == IF l # << >> /\ IsSpace(Head(l)) THEN LStripToks(Tail(l)) ELSE l
RECURSIVE RStripToks(_)
RStripToks(l) == IF l # << >> /\ IsSpace(l[Len(l)]) THEN RStripToks(SubSeq(l, 1, Len(l) - 1)) ELSE l
\* line.strip()
StripLine(l) == RStripToks(LStripToks(l))

\* single-character tokens
SP == << " " >>
LP == << "(" >>
RP == << ")" >>
COLON == << ":" >>
DQ == << "\"" >>
SQ == << "'" >>
BANG == << "!" >>
DOT == << "." >>
QM == << "?" >>
COMMA == << "," >>

\* first index >= p of l that is not a blank token (Len(l)+1 when none): \s*
RECURSIVE SkipSpaces(_, _)
SkipSpaces(l, p) == IF p <= Len(l) /\ IsSpace(l[p]) THEN SkipSpaces(l, p + 1) ELSE p

-----------------------------------------------------------------------------
(* analyze_story_content: tables                                           *)

\* VOICE_MAPPING = {...}: the voices the Watson fallback knows (app.py 55-65)
VOICE_MAPPING ==
    [ david |-> "en-US_MichaelV3Voice", zira |-> "en-US_AllisonV3Voice",
      heera |-> "en-US_EmilyV3Voice", mark |-> "en-US_HenryV3Voice",
      ravi |-> "en-US_KevinV3Voice", lisa |-> "en-US_AllisonV3Voice",
      michael |-> "en-US_MichaelV3Voice", allison |-> "en-US_EmilyV3Voice" ]

\* a pool with a voice the application does not know
voices_with_unknown == << "david", "zira", "heera", "mark", "aria" >>

\* voices = ['david', 'zira', 'heera', 'mark', 'ravi']
voices == << "david", "zira", "heera", "mark", "ravi" >>

\* voices[k] with Python's zero-based index
VoiceAt(k) == voices[k + 1]

\* narrator_voice = voices[0]
narrator_voice == VoiceAt(0)

\* emotion_mapping = {...}, in insertion order
emotion_mapping == <<
    [ emotion |-> << "c","h","e","e","r","f","u","l" >>, mapped_tone |-> "cheerful" ],
    [ emotion |-> << "h","a","p","p","y" >>, mapped_tone |-> "cheerful" ],
    [ emotion |-> << "e","x","c","i","t","e","d" >>, mapped_tone |-> "cheerful" ],
    [ emotion |-> << "p","l","a","y","f","u","l" >>, mapped_tone |-> "cheerful" ],
    [ emotion |-> << "j","o","y" >>, mapped_tone |-> "cheerful" ],
    [ emotion |-> << "l","a","u","g","h" >>, mapped_tone |-> "cheerful" ],
    [ emotion |-> << "s","m","i","l","e" >>, mapped_tone |-> "cheerful" ],
    [ emotion |-> << "s","a","d" >>, mapped_tone |-> "sad" ],
    [ emotion |-> << "c","r","y" >>, mapped_tone |-> "sad" ],
    [ emotion |-> << "w","e","e","p" >>, mapped_tone |-> "sad" ],
    [ emotion |-> << "s","o","r","r","o","w" >>, mapped_tone |-> "sad" ],
    [ emotion |-> << "t","e","a","r" >>, mapped_tone |-> "sad" ],
    [ emotion |-> << "a","n","g","r","y" >>, mapped_tone |-> "angry" ],
    [ emotion |-> << "m","a","d" >>, mapped_tone |-> "angry" ],
    [ emotion |-> << "f","u","r","i","o","u","s" >>, mapped_tone |-> "angry" ],
    [ emotion |-> << "r","a","g","e" >>, mapped_tone |-> "angry" ],
    [ emotion |-> << "s","h","o","u","t" >>, mapped_tone |-> "angry" ],
    [ emotion |-> << "c","a","l","m" >>, mapped_tone |-> "calm" ],
    [ emotion |-> << "p","e","a","c","e","f","u","l" >>, mapped_tone |-> "calm" ],
    [ emotion |-> << "q","u","i","e","t" >>, mapped_tone |-> "calm" ],
    [ emotion |-> << "w","h","i","s","p","e","r" >>, mapped_tone |-> "calm" ],
    [ emotion |-> << "s","e","r","e","n","e" >>, mapped_tone |-> "calm" ],
    [ emotion |-> << "n","e","r","v","o","u","s" >>, mapped_tone |-> "suspenseful" ],
    [ emotion |-> << "s","c","a","r","e","d" >>, mapped_tone |-> "suspenseful" ],
    [ emotion |-> << "a","f","r","a","i","d" >>, mapped_tone |-> "suspenseful" ],
    [ emotion |-> << "w","o","r","r","y" >>, mapped_tone |-> "suspenseful" ],
    [ emotion |-> << "a","n","x","i","o","u","s" >>, mapped_tone |-> "suspenseful" ],
    [ emotion |-> << "s","u","s","p","e","n","s","e","f","u","l" >>, mapped_tone |-> "suspenseful" ],
    [ emotion |-> << "c","o","n","f","i","d","e","n","t" >>, mapped_tone |-> "confident" ],
    [ emotion |-> << "p","r","o","u","d" >>, mapped_tone |-> "confident" ],
    [ emotion |-> << "s","t","r","o","n","g" >>, mapped_tone |-> "confident" ],
    [ emotion |-> << "b","r","a","v","e" >>, mapped_tone |-> "confident" ],
    [ emotion |-> << "b","o","l","d" >>, mapped_tone |-> "confident" ],
    [ emotion |-> << "i","n","s","p","i","r","i","n","g" >>, mapped_tone |-> "confident" ]
  >>
angry_words == << << "!" >>, << "e","x","c","l","a","i","m","e","d" >>, << "s","h","o","u","t","e","d" >>, << "y","e","l","l","e","d" >> >>
calm_words == << << "w","h","i","s","p","e","r","e","d" >>, << "m","u","r","m","u","r","e","d" >>, << "s","o","f","t","l","y" >> >>
suspenseful_words == << << "w","o","n","d","e","r","e","d" >>, << "m","y","s","t","e","r","i","o","u","s" >>, << "s","t","r","a","n","g","e" >> >>
SAID == << "s","a","i","d" >>
ASKED == << "a","s","k","e","d" >>
REPLIED == << "r","e","p","l","i","e","d" >>
CHARACTER == << "C","h","a","r","a","c","t","e","r" >>

\* emotion_mapping.get(hint, 'neutral')
emotion_mapping_get(hint) ==
    IF \E i \in DOMAIN emotion_mapping : emotion_mapping[i].emotion = hint
    THEN emotion_mapping[CHOOSE i \in DOMAIN emotion_mapping : emotion_mapping[i].emotion = hint].mapped_tone
    ELSE "neutral"

-----------------------------------------------------------------------------
(* analyze_story_content: the three regular expressions                    *)

NoMatch == [ matched |-> FALSE ]

\* first index >= p of l whose token is in stop (Len(l)+1 when none)
RECURSIVE FirstOf(_, _, _)
FirstOf(l, p, stop) ==
    IF p <= Len(l) /\ l[p] \notin stop THEN FirstOf(l, p + 1, stop) ELSE p

\* re.match(r'(\w+)\s*\(([^)]+)\):\s*["\']?([^"\']*)["\']?', line)
character_match(line) ==
    LET n == Len(line)
        p == SkipSpaces(line, 2)              \* (\w+)\s*  then  \(
        q == FirstOf(line, p + 1, { RP })     \* ([^)]+)   then  \)
        r == SkipSpaces(line, q + 2)          \* :\s*
        b == IF r <= n /\ line[r] \in { DQ, SQ } THEN r + 1 ELSE r   \* ["\']?
        e == FirstOf(line, b, { DQ, SQ })     \* ([^"\']*)
    IN  IF /\ n >= 1 /\ IsWord(line[1])
           /\ p <= n /\ line[p] = LP
           /\ q <= n /\ q > p + 1
           /\ q + 1 <= n /\ line[q + 1] = COLON
        THEN [ matched |-> TRUE,
               group1 |-> line[1],
               group2 |-> Flat(SubSeq(line, p + 1, q - 1)),
               group3 |-> Flat(SubSeq(line, b, e - 1)) ]
        ELSE NoMatch

\* dialogue_match accepting single quotes as well: r'["\']([^"\']*)["\']'
dialogue_match_any_quote(line) ==
    \E i, j \in DOMAIN line : i < j /\ line[i] \in { DQ, SQ } /\ line[j] \in { DQ, SQ }

\* re.search(r'"([^"]*)"', line)
dialogue_match(line) ==
    \E i, j \in DOMAIN line : i < j /\ line[i] = DQ /\ line[j] = DQ

\* index of the word that follows token p after at least one blank (\s+), else 0
WordAfter(l, p) ==
    LET j == SkipSpaces(l, p + 1)
    IN  IF p + 1 <= Len(l) /\ IsSpace(l[p + 1]) /\ j <= Len(l) /\ IsWord(l[j])
        THEN j ELSE 0

\* The match of the speaker expression that starts inside token p, if any:
\* the alternatives are tried in their written order at the leftmost start.
SpeakerAt(l, p) ==
    LET w == WordAfter(l, p)
        Before(v) == IsWord(l[p]) /\ w # 0 /\ StartsWith(l[w], v)   \* (\w+)\s+v
        After(v) == l[p] = v /\ w # 0                               \* v\s+(\w+)
        Inside(v) == IsWord(l[p]) /\ EndsWith(l[p], v) /\ w # 0     \* v\s+(\w+), v a proper suffix
    IN  IF Before(SAID) THEN l[p]
        ELSE IF After(SAID) THEN l[w]
        ELSE IF Before(ASKED) THEN l[p]
        ELSE IF After(ASKED) THEN l[w]
        ELSE IF Before(REPLIED) THEN l[p]
        ELSE IF After(REPLIED) THEN l[w]
        ELSE IF Inside(SAID) \/ Inside(ASKED) \/ Inside(REPLIED) THEN l[w]
        ELSE << >>

\* re.search(r'(\w+)\s+said|said\s+(\w+)|(\w+)\s+asked|asked\s+(\w+)|
\*             (\w+)\s+replied|replied\s+(\w+)', line.lower())
\* with next(filter(None, speaker_match.groups())) as group
speaker_match(line) ==
    LET l == [ i \in DOMAIN line |-> Lower(line[i]) ]
        hits == { p \in DOMAIN l : SpeakerAt(l, p) # << >> }
    IN  IF hits = {} THEN NoMatch
        ELSE [ matched |-> TRUE,
               group |-> SpeakerAt(l, CHOOSE p \in hits : \A o \in hits : p <= o) ]

-----------------------------------------------------------------------------
(* analyze_story_content: the registry and one iteration of the loop       *)

\* assign_voice binding the name again on every line it speaks
assign_voice_rebind(reg, name) ==
    [ character_voices |->
          (name :> VoiceAt(reg.current_voice_index % Len(voices))) @@ reg.character_voices,
      current_voice_index |-> reg.current_voice_index + 1 ]

\* assign_voice advancing the counter before it is used
assign_voice_early_increment(reg, name) ==
    IF name \in DOMAIN reg.character_voices
    THEN reg
    ELSE [ character_voices |->
               reg.character_voices @@ (name :> VoiceAt((reg.current_voice_index + 1) % Len(voices))),
           current_voice_index |-> reg.current_voice_index + 1 ]

\* if name not in character_voices:
\*     character_voices[name] = voices[current_voice_index % len(voices)]
\*     current_voice_index += 1
assign_voice(reg, name) ==
    IF name \in DOMAIN reg.character_voices
    THEN reg
    ELSE [ character_voices |->
               reg.character_voices @@ (name :> VoiceAt(reg.current_voice_index % Len(voices))),
           current_voice_index |-> reg.current_voice_index + 1 ]

\* len([c for c in character_voices.keys() if c.startswith('Character')]) + 1
character_num(cv) ==
    Cardinality({ c \in DOMAIN cv : StartsWith(c, CHARACTER) }) + 1

\* generic_character giving every unattributed speaker the number 1
generic_character_one(cv) == CHARACTER \o << " " >> \o Str(1)

\* f"Character {character_num}"
generic_character(cv) == CHARACTER \o << " " >> \o Str(character_num(cv))

\* the index, from 0, of the first occurrence of p in s
FirstAt(s, p) ==
    CHOOSE i \in 0 .. (Len(s) - Len(p)) :
        /\ SubSeq(s, i + 1, i + Len(p)) = p
        /\ \A j \in 0 .. (i - 1) : SubSeq(s, j + 1, j + Len(p)) # p

\* detect_emotion taking the keyword that comes first in the text
detect_emotion_leftmost(text_lower) ==
    LET hits == { i \in DOMAIN emotion_mapping : Contains(text_lower, emotion_mapping[i].emotion) }
        at(i) == FirstAt(text_lower, emotion_mapping[i].emotion)
    IN  IF hits = {} THEN "neutral"
        ELSE emotion_mapping[CHOOSE i \in hits :
                               \A o \in hits : at(i) < at(o) \/ (at(i) = at(o) /\ i <= o)].mapped_tone

\* for emotion, mapped_tone in emotion_mapping.items():
\*     if emotion in text_lower: tone = mapped_tone; break
detect_emotion(text_lower) ==
    LET hits == { i \in DOMAIN emotion_mapping : Contains(text_lower, emotion_mapping[i].emotion) }
    IN  IF hits = {} THEN "neutral"
        ELSE emotion_mapping[CHOOSE i \in hits : \A o \in hits : i <= o].mapped_tone

\* any(word in text_to_speak.lower() for word in words)
AnyIn(words, text_lower) == \E i \in DOMAIN words : Contains(text_lower, words[i])

\* detect_indicator with the whisper words tested before the exclamation
detect_indicator_calm_first(text_lower) ==
    IF AnyIn(calm_words, text_lower) THEN "calm"
    ELSE IF AnyIn(angry_words, text_lower) THEN "angry"
    ELSE IF AnyIn(suspenseful_words, text_lower) THEN "suspenseful"
    ELSE "neutral"

\* the if / elif / elif of the action indicators
detect_indicator(text_lower) ==
    IF AnyIn(angry_words, text_lower) THEN "angry"
    ELSE IF AnyIn(calm_words, text_lower) THEN "calm"
    ELSE IF AnyIn(suspenseful_words, text_lower) THEN "suspenseful"
    ELSE "neutral"

\* refine_tone without the "if tone == 'neutral'" guards: what the spoken
\* text suggests replaces the tone the cue gave
refine_tone_always(tone, text_to_speak) ==
    LET t1 == detect_emotion(Lower(text_to_speak))
        t2 == detect_indicator(Lower(text_to_speak))
    IN  IF t1 # "neutral" THEN t1 ELSE IF t2 # "neutral" THEN t2 ELSE tone

\* tone after the two "if tone == 'neutral'" refinements
refine_tone(tone, text_to_speak) ==
    LET t1 == IF tone = "neutral" THEN detect_emotion(Lower(text_to_speak)) ELSE tone
    IN  IF t1 = "neutral" THEN detect_indicator(Lower(text_to_speak)) ELSE t1

\* clean_text that does not count '!' as terminal punctuation
clean_text_no_bang(text_to_speak) ==
    IF EndsWith(text_to_speak, DOT) \/ EndsWith(text_to_speak, QM)
    THEN text_to_speak
    ELSE text_to_speak \o DOT

\* clean_text that appends '.' whatever the text ends in
clean_text_always_period(text_to_speak) == text_to_speak \o DOT

\* if not text_to_speak.endswith(('.', '!', '?')): text_to_speak += '.'
clean_text(text_to_speak) ==
    IF EndsWith(text_to_speak, DOT) \/ EndsWith(text_to_speak, BANG) \/ EndsWith(text_to_speak, QM)
    THEN text_to_speak
    ELSE text_to_speak \o DOT

\* classify_line looking for a quoted part before it looks for a cue
classify_line_quote_first(reg, line) ==
    LET cm == character_match(line)
        sm == speaker_match(line)
        quoted == dialogue_match(line)
        name == IF quoted
                THEN (IF sm.matched THEN Title(sm.group)
                      ELSE generic_character(reg.character_voices))
                ELSE Title(cm.group1)
        reg2 == assign_voice(reg, name)
    IN  IF quoted \/ cm.matched
        THEN [ reg |-> reg2,
               voice |-> reg2.character_voices[name],
               character |-> name,
               is_dialogue |-> TRUE,
               tone |-> IF quoted THEN "neutral"
                        ELSE emotion_mapping_get(Strip(Lower(cm.group2))),
               text_to_speak |-> IF quoted THEN Flat(line) ELSE Strip(cm.group3) ]
        ELSE [ reg |-> reg,
               voice |-> narrator_voice,
               character |-> << "N","a","r","r","a","t","o","r" >>,
               is_dialogue |-> FALSE,
               tone |-> "neutral",
               text_to_speak |-> Flat(line) ]

\* What the if / else chain of one iteration decides for a non-blank, stripped
\* line, given the registry: the registry afterwards and voice, tone,
\* character, is_dialogue, text_to_speak.
classify_line(reg, line) ==
    LET cm == character_match(line)
        sm == speaker_match(line)
    IN  IF cm.matched
        THEN LET character_name == Title(cm.group1)
                 emotion_hint == Strip(Lower(cm.group2))
                 dialogue_text == Strip(cm.group3)
                 reg2 == assign_voice(reg, character_name)
             IN  [ reg |-> reg2,
                   voice |-> reg2.character_voices[character_name],
                   character |-> character_name,
                   is_dialogue |-> TRUE,
                   tone |-> emotion_mapping_get(emotion_hint),
                   text_to_speak |-> dialogue_text ]
        ELSE IF dialogue_match(line)
        THEN IF sm.matched
             THEN LET speaker == Title(sm.group)
                      reg2 == assign_voice(reg, speaker)
                  IN  [ reg |-> reg2,
                        voice |-> reg2.character_voices[speaker],
                        character |-> speaker,
                        is_dialogue |-> TRUE,
                        tone |-> "neutral",
                        text_to_speak |-> Flat(line) ]
             ELSE LET character == generic_character(reg.character_voices)
                      reg2 == assign_voice(reg, character)
                  IN  [ reg |-> reg2,
                        voice |-> reg2.character_voices[character],
                        character |-> character,
                        is_dialogue |-> TRUE,
                        tone |-> "neutral",
                        text_to_speak |-> Flat(line) ]
        ELSE [ reg |-> reg,
               voice |-> narrator_voice,
               character |-> << "N","a","r","r","a","t","o","r" >>,
               is_dialogue |-> FALSE,
               tone |-> "neutral",
               text_to_speak |-> Flat(line) ]

\* make_segment storing the tone as the emotion also when it is neutral
make_segment_emotion_is_tone(c) ==
    LET tone == refine_tone(c.tone, c.text_to_speak)
    IN  [ text |-> clean_text(c.text_to_speak),
          voice |-> c.voice,
          tone |-> tone,
          character |-> c.character,
          emotion |-> tone,
          is_dialogue |-> c.is_dialogue ]

\* segments.append({...})
make_segment(c) ==
    LET tone == refine_tone(c.tone, c.text_to_speak)
    IN  [ text |-> clean_text(c.text_to_speak),
          voice |-> c.voice,
          tone |-> tone,
          character |-> c.character,
          emotion |-> IF tone # "neutral" THEN tone ELSE "None",
          is_dialogue |-> c.is_dialogue ]

\* analyze_line rejecting a line that matches no dialogue pattern
analyze_line_reject(st, raw_line) ==
    LET line == StripLine(raw_line)
        c == classify_line([ character_voices |-> st.character_voices,
                             current_voice_index |-> st.current_voice_index ], line)
    IN  IF line = << >> \/ ~c.is_dialogue
        THEN st
        ELSE [ segments |-> Append(st.segments, make_segment(c)),
               character_voices |-> c.reg.character_voices,
               current_voice_index |-> c.reg.current_voice_index ]

\* One iteration of "for line in lines" on the loop state
\* st = [segments, character_voices, current_voice_index].
analyze_line(st, raw_line) ==
    LET line == StripLine(raw_line)
        c == classify_line([ character_voices |-> st.character_voices,
                             current_voice_index |-> st.current_voice_index ], line)
    IN  IF line = << >>
        THEN st                                        \* if not line: continue
        ELSE [ segments |-> Append(st.segments, make_segment(c)),
               character_voices |-> c.reg.character_voices,
               current_voice_index |-> c.reg.current_voice_index ]

\* segments = [], character_voices = {}, current_voice_index = 1
analyze_start ==
    [ segments |-> << >>, character_voices |-> << >>, current_voice_index |-> 1 ]

RECURSIVE analyze_loop(_, _)
analyze_loop(st, text_lines) ==
    IF text_lines = << >> THEN st
    ELSE analyze_loop(analyze_line(st, Head(text_lines)), Tail(text_lines))

\* analyze_story_content(text), text given as text.split('\n')
analyze_story_content(text_lines) == analyze_loop(analyze_start, text_lines).segments

-----------------------------------------------------------------------------
(* analyze_story_content as a process: one loop iteration per step         *)

MaxLines == 5

\* words used to build the input lines
w_tom == << "t","o","m" >>
w_TOM == << "T","O","M" >>
w_ANN == << "A","N","N" >>
w_ann == << "a","n","n" >>
w_hi == << "h","i" >>
w_why == << "w","h","y" >>
w_who == << "w","h","o" >>
w_it == << "i","t" >>
w_rained == << "r","a","i","n","e","d" >>
w_sad == << "s","a","d" >>
w_HAPPY == << "H","A","P","P","Y" >>

\* tom (sad): "hi"
line_cue_tom == << w_tom, SP, LP, w_sad, RP, COLON, SP, DQ, w_hi, DQ >>
\* ANN (HAPPY): hi
line_cue_ANN == << w_ANN, SP, LP, w_HAPPY, RP, COLON, SP, w_hi >>
\* "hi," said TOM
line_said_TOM == << DQ, w_hi, COMMA, DQ, SP, SAID, SP, w_TOM >>
\* ann asked, "why?"
line_ann_asked == << w_ann, SP, ASKED, COMMA, SP, DQ, w_why, QM, DQ >>
\* "who?"
line_quote == << DQ, w_who, QM, DQ >>
\* it rained
line_narration == << w_it, SP, w_rained >>
\* a line of blanks
line_blank == << SP, SP >>

RegistryLines ==
    { line_cue_tom, line_cue_ANN, line_said_TOM, line_ann_asked,
      line_quote, line_narration, line_blank }

\* a line is lexed: every token is a word or a single non-word character, and
\* no two words are adjacent
WellLexed(l) ==
    /\ \A i \in DOMAIN l : IsWord(l[i]) \/ (Len(l[i]) = 1 /\ ~IsWordChar(l[i][1]))
    /\ \A i \in DOMAIN l : i > 1 => ~(IsWord(l[i-1]) /\ IsWord(l[i]))

loop_state ==
    [ segments |-> segments, character_voices |-> character_voices,
      current_voice_index |-> current_voice_index ]

AnalyzeInit ==
    /\ lines = << >>
    /\ segments = analyze_start.segments
    /\ character_voices = analyze_start.character_voices
    /\ current_voice_index = analyze_start.current_voice_index
    /\ a_pc = "loop"

\* for line in lines: ... (the next line of the text is any line of the set)
AnalyzeStep(line_set) ==
    /\ a_pc = "loop"
    /\ Len(lines) < MaxLines
    /\ \E line \in line_set :
          \E st \in { analyze_line(loop_state, line) } :
              /\ WellLexed(line)
              /\ lines' = Append(lines, line)
              /\ segments' = st.segments
              /\ character_voices' = st.character_voices
              /\ current_voice_index' = st.current_voice_index
    /\ a_pc' = a_pc

\* return segments
AnalyzeReturn ==
    /\ a_pc = "loop"
    /\ a_pc' = "returned"
    /\ UNCHANGED << lines, segments, character_voices, current_voice_index >>

-----------------------------------------------------------------------------
(* story_narration_merged: data                                            *)

MaxSegments == 3
MaxClock == 1

\* lengths, in milliseconds, of the clips a provider may return
ClipLengths == { 700, 1200 }

\* AudioSegment.silent(duration=500)
pause == [ silent |-> 500 ]

\* Python's None, for a string, for bytes, for a path, for a row id and for
\* a response that does not exist yet
None == "None"
NoAudio == [ empty |-> TRUE ]
NoPath == [ missing |-> TRUE ]
NoId == 0
NoResponse == [ status |-> 0 ]

\* the bytes a provider returns for segment i (zero-based) of request r
Clip(r, i, provider, ms) == [ for_req |-> r, for_seg |-> i, by |-> provider, ms |-> ms ]

\* f'temp_segment_{user_id}_{i}.wav' in temp/
temp_path(user_id, i) == [ user |-> user_id, idx |-> i ]

\* f'story_merged_{user_id}_{timestamp}.wav' in audio_files/
merged_path(user_id, timestamp) == [ user |-> user_id, ts |-> timestamp ]

\* text.strip() on a text given as its lines: leading and trailing blank
\* lines go, and so do the blanks around what is left
RECURSIVE DropBlankHead(_)
DropBlankHead(t) ==
    IF t # << >> /\ StripLine(Head(t)) = << >> THEN DropBlankHead(Tail(t)) ELSE t
RECURSIVE DropBlankTail(_)
DropBlankTail(t) ==
    IF t # << >> /\ StripLine(t[Len(t)]) = << >> THEN DropBlankTail(SubSeq(t, 1, Len(t) - 1)) ELSE t
StripText(t) ==
    LET u == DropBlankTail(DropBlankHead(t))
    IN  [ k \in DOMAIN u |->
            LET a == IF k = 1 THEN LStripToks(u[k]) ELSE u[k]
            IN  IF k = Len(u) THEN RStripToks(a) ELSE a ]

\* the lines of the texts sent to the endpoint
MergedLines == { line_cue_tom, line_narration, line_blank }

RECURSIVE SeqsUpTo(_, _)
SeqsUpTo(S, n) ==
    IF n = 0 THEN { << >> }
    ELSE LET shorter == SeqsUpTo(S, n - 1)
         IN  shorter \cup { Append(s, x) : s \in { t \in shorter : Len(t) = n - 1 }, x \in S }

Users == { "u1" }

\* request.get_json(): nothing, or a body with the text and the user id
RequestData ==
    { [ json |-> FALSE ] }
    \cup { [ json |-> TRUE, text |-> t, user_id |-> u ] :
             t \in SeqsUpTo(MergedLines, MaxSegments), u \in Users \cup { None } }

\* the handler's locals before the request arrives
NewRequest ==
    [ pc |-> "start", text |-> << >>, user_id |-> None, segments |-> << >>,
      i |-> 0, audio_files |-> << >>, temp_files |-> << >>,
      synth_log |-> << >>, merged_audio |-> << >>, merged_file |-> NoPath,
      history_id |-> NoId, outcome |-> None, response |-> NoResponse ]

\* jsonify({'error': message}), status
ErrorResponse(status, message) == [ status |-> status, error |-> message ]

\* for temp_file in temp_files: try: os.remove(temp_file) except: pass
remove_temp_files(dir, temp_files) ==
    [ p \in (DOMAIN dir) \ Range(temp_files) |-> dir[p] ]

\* add_files forgetting the pause
RECURSIVE add_files_no_pause(_, _, _)
add_files_no_pause(merged_audio, dir, audio_files) ==
    IF audio_files = << >> THEN merged_audio
    ELSE add_files_no_pause(merged_audio \o << dir[Head(audio_files)] >>, dir, Tail(audio_files))

\* merged_audio = from_wav(audio_files[0]);
\* for audio_file in audio_files[1:]: merged_audio = merged_audio + pause + from_wav(audio_file)
RECURSIVE add_files(_, _, _)
add_files(merged_audio, dir, audio_files) ==
    IF audio_files = << >> THEN merged_audio
    ELSE add_files(merged_audio \o << pause >> \o << dir[Head(audio_files)] >>,
                   dir, Tail(audio_files))
merge_files(dir, audio_files) ==
    add_files(<< dir[audio_files[1]] >>, dir, Tail(audio_files))

\* len(merged_audio), in milliseconds
RECURSIVE audio_len(_)
audio_len(a) ==
    IF a = << >> THEN 0
    ELSE (IF "silent" \in DOMAIN Head(a) THEN Head(a).silent ELSE Head(a).ms) + audio_len(Tail(a))

\* AudioSegment.from_wav can read the file: it exists and was written whole
Readable(dir, p) == p \in DOMAIN dir /\ "partial" \notin DOMAIN dir[p]

-----------------------------------------------------------------------------
(* story_narration_merged: the handler, one action per step                *)

\* return jsonify(...), status
Respond(q, outcome, response) ==
    [ q EXCEPT !.pc = "done", !.outcome = outcome, !.response = response ]

\* lines 1297-1317: read the body, one of request_data, validate, analyze
ReceiveFrom(r, request_data) ==
    /\ req[r].pc = "start"
    /\ \E data \in request_data :
          \E text \in { IF data.json THEN StripText(data.text) ELSE << >> } :
          \E found \in { analyze_story_content(text) } :
          LET q == req[r]
          IN  req' = [ req EXCEPT ![r] =
                IF ~data.json
                THEN Respond(q, "rejected", ErrorResponse(400, "No JSON data provided"))
                ELSE IF text = << >>
                THEN Respond(q, "rejected", ErrorResponse(400, "Text is required"))
                ELSE IF data.user_id = None
                THEN Respond([ q EXCEPT !.text = text ], "rejected",
                             ErrorResponse(400, "User ID is required"))
                ELSE IF found = << >>
                THEN Respond([ q EXCEPT !.text = text, !.user_id = data.user_id ], "rejected",
                             ErrorResponse(400, "No story segments found"))
                ELSE [ q EXCEPT !.pc = "COLLECTING_SEGMENTS", !.text = text,
                                !.user_id = data.user_id, !.segments = found ] ]
    /\ UNCHANGED << temp_dir, audio_dir, audio_history, downloads, clock, env >>

Receive(r) == ReceiveFrom(r, RequestData)

\* skip_segment answering with an error instead, as story_narration_audio does
skip_segment_abort(q) ==
    [ q EXCEPT !.pc = "done", !.outcome = "synthesis_error",
               !.response = [ status |-> 500, error |-> "Failed to generate audio" ],
               !.synth_log = Append(@, [ seg |-> q.i, result |-> "SYNTH_SKIPPED" ]) ]

\* "continue" after a Watson error, or "if audio_data" being false: nothing is
\* stored for segment i and the loop goes on with the next segment
skip_segment(q) ==
    [ q EXCEPT !.i = q.i + 1,
               !.synth_log = Append(@, [ seg |-> q.i, result |-> "SYNTH_SKIPPED" ]) ]

\* audio_files.append(temp_path); temp_files.append(temp_path)
keep_clip(q, path, audio_data) ==
    [ q EXCEPT !.i = q.i + 1,
               !.synth_log = Append(@, [ seg |-> q.i, result |-> "SYNTH_OK", audio |-> audio_data ]),
               !.audio_files = Append(@, path),
               !.temp_files = Append(@, path) ]

\* lines 1323-1370: one iteration of "for i, segment in enumerate(segments)".
\*   hf     what hf_service.synthesize_speech does: returns audio, returns
\*          nothing, raises
\*   watson what tts.synthesize(...).get_result() does when it is called:
\*          returns audio, returns empty content, raises
\*   wr     what writing the temporary file does: succeeds, fails before the
\*          file exists, fails after the file was created
SynthesizeSegment(r) ==
    /\ req[r].pc = "COLLECTING_SEGMENTS"
    /\ req[r].i < Len(req[r].segments)
    /\ \E hf \in { "audio", "none", "raise" },
          watson \in { "audio", "empty", "raise", "not called" },
          ms \in ClipLengths,
          wr \in { "ok", "open fails", "write fails" } :
          LET q == req[r]
              i == q.i
              hf_audio == IF hf = "audio" THEN Clip(r, i, "hf", ms) ELSE NoAudio
              call_watson == hf_audio = NoAudio /\ env.tts        \* if not audio_data and tts
              audio_data == IF call_watson
                            THEN IF watson = "audio" THEN Clip(r, i, "watson", ms) ELSE NoAudio
                            ELSE hf_audio
              path == temp_path(q.user_id, i)
              synthesized == [ q EXCEPT !.synth_log =
                                 Append(@, [ seg |-> i, result |-> "SYNTH_OK", audio |-> audio_data ]) ]
          IN  /\ call_watson <=> watson # "not called"
              /\ audio_data = NoAudio => wr = "ok"
              /\ IF audio_data = NoAudio
                 THEN \* Watson raised (continue) or "if audio_data" is false
                      /\ req' = [ req EXCEPT ![r] = skip_segment(q) ]
                      /\ temp_dir' = temp_dir
                 ELSE IF wr = "ok"
                 THEN /\ req' = [ req EXCEPT ![r] = keep_clip(q, path, audio_data) ]
                      /\ temp_dir' = (path :> audio_data) @@ temp_dir
                 ELSE \* the write raises: caught by the outer "except Exception"
                      /\ req' = [ req EXCEPT ![r] =
                            Respond(synthesized, "internal_error",
                                    ErrorResponse(500, "Internal server error")) ]
                      /\ temp_dir' = IF wr = "write fails"
                                     THEN (path :> [ partial |-> TRUE ]) @@ temp_dir
                                     ELSE temp_dir
    /\ UNCHANGED << audio_dir, audio_history, downloads, clock, env >>

\* after_loop without the check of audio_files
after_loop_always_merge(q) == [ q EXCEPT !.pc = "MERGING" ]

\* after_loop answering an empty narration with success
after_loop_empty_success(q) ==
    IF q.audio_files = << >>
    THEN [ q EXCEPT !.pc = "done", !.outcome = "MERGED",
                    !.response = [ status |-> 200, success |-> TRUE, filename |-> q.merged_file,
                                   segments_count |-> 0, duration_ms |-> 0 ] ]
    ELSE [ q EXCEPT !.pc = "MERGING" ]

\* if not audio_files: return jsonify({'error': ...}), 500
after_loop(q) ==
    IF q.audio_files = << >>
    THEN Respond(q, "no_audio", ErrorResponse(500, "Failed to generate any audio segments"))
    ELSE [ q EXCEPT !.pc = "MERGING" ]

\* lines 1372-1373: the loop is over
EndCollect(r) ==
    /\ req[r].pc = "COLLECTING_SEGMENTS"
    /\ req[r].i = Len(req[r].segments)
    /\ req' = [ req EXCEPT ![r] = after_loop(req[r]) ]
    /\ UNCHANGED << temp_dir, audio_dir, audio_history, downloads, clock, env >>

\* lines 1376-1387: import pydub, load the files and concatenate them
MergeLoad(r) ==
    /\ req[r].pc = "MERGING"
    /\ \E decodes \in BOOLEAN :
          LET q == req[r]
              loaded == /\ decodes
                        /\ q.audio_files # << >>          \* audio_files[0]
                        /\ \A k \in DOMAIN q.audio_files : Readable(temp_dir, q.audio_files[k])
          IN  IF ~env.pydub
              THEN \* except ImportError: return ..., 500
                   /\ req' = [ req EXCEPT ![r] =
                         Respond(q, "MERGE_FAILED",
                                 ErrorResponse(500, "Audio merging not available. Install pydub: pip install pydub")) ]
                   /\ temp_dir' = temp_dir
              ELSE IF loaded
              THEN /\ req' = [ req EXCEPT ![r] =
                         [ q EXCEPT !.pc = "EXPORTING",
                                    !.merged_audio = merge_files(temp_dir, q.audio_files) ] ]
                   /\ temp_dir' = temp_dir
              ELSE \* except Exception: clean up, return ..., 500
                   /\ req' = [ req EXCEPT ![r] =
                         Respond(q, "MERGE_FAILED", ErrorResponse(500, "Failed to merge audio files")) ]
                   /\ temp_dir' = remove_temp_files(temp_dir, q.temp_files)
    /\ UNCHANGED << audio_dir, audio_history, downloads, clock, env >>

\* lines 1389-1399: name the merged file after the user and the time, export
MergeExport(r) ==
    /\ req[r].pc = "EXPORTING"
    /\ \E wr \in { "ok", "open fails", "write fails" } :
          LET q == req[r]
              path == merged_path(q.user_id, clock)
          IN  IF wr = "ok"
              THEN /\ req' = [ req EXCEPT ![r] = [ q EXCEPT !.pc = "RECORDING", !.merged_file = path ] ]
                   /\ audio_dir' = (path :> q.merged_audio) @@ audio_dir
                   /\ temp_dir' = temp_dir
              ELSE \* except Exception: clean up, return ..., 500
                   /\ req' = [ req EXCEPT ![r] =
                         Respond([ q EXCEPT !.merged_file = path ], "MERGE_FAILED",
                                 ErrorResponse(500, "Failed to merge audio files")) ]
                   /\ audio_dir' = IF wr = "write fails"
                                   THEN (path :> << [ partial |-> TRUE ] >>) @@ audio_dir
                                   ELSE audio_dir
                   /\ temp_dir' = remove_temp_files(temp_dir, q.temp_files)
    /\ UNCHANGED << audio_history, downloads, clock, env >>

\* lines 1401-1426: save_audio_history, update_audio_history_status and
\* save_download; each catches its own database error and returns None/False
MergeRecord(r) ==
    /\ req[r].pc = "RECORDING"
    /\ \E saved, updated, download_saved \in BOOLEAN :
          LET q == req[r]
              history_id == IF saved THEN Len(audio_history) + 1 ELSE NoId
              row == [ id |-> history_id, user_id |-> q.user_id,
                       rewritten_text |-> "Story Narration (Merged)",
                       tone |-> "multiple", voice |-> "multiple",
                       audio_file_path |-> NoPath, processing_status |-> "pending" ]
              completed == [ row EXCEPT !.audio_file_path = q.merged_file,
                                        !.processing_status = "completed" ]
          IN  /\ ~saved => ~updated /\ ~download_saved   \* WHERE id = NULL; history_id NOT NULL
              /\ audio_history' = IF ~saved THEN audio_history
                                  ELSE Append(audio_history, IF updated THEN completed ELSE row)
              /\ downloads' = IF download_saved
                              THEN Append(downloads,
                                     [ user_id |-> q.user_id, history_id |-> history_id,
                                       original_filename |-> "story_merged.wav",
                                       file_path |-> q.merged_file ])
                              ELSE downloads
              /\ req' = [ req EXCEPT ![r] = [ q EXCEPT !.pc = "CLEANING", !.history_id = history_id ] ]
    /\ UNCHANGED << temp_dir, audio_dir, clock, env >>

\* lines 1428-1445: remove the temporary files and answer
MergeRespond(r) ==
    /\ req[r].pc = "CLEANING"
    /\ LET q == req[r]
       IN  /\ temp_dir' = remove_temp_files(temp_dir, q.temp_files)
           /\ req' = [ req EXCEPT ![r] =
                 Respond(q, "MERGED",
                         [ status |-> 200, success |-> TRUE,
                           filename |-> q.merged_file,
                           segments_count |-> Len(q.segments),
                           duration_ms |-> audio_len(q.merged_audio) ]) ]
    /\ UNCHANGED << audio_dir, audio_history, downloads, clock, env >>

\* a second passes
Tick ==
    /\ clock < MaxClock
    /\ clock' = clock + 1
    /\ UNCHANGED << req, temp_dir, audio_dir, audio_history, downloads, env >>

-----------------------------------------------------------------------------
(* Specifications                                                          *)

\* no request is being served
MergedIdle ==
    /\ req = << >>
    /\ temp_dir = << >>
    /\ audio_dir = << >>
    /\ audio_history = << >>
    /\ downloads = << >>
    /\ clock = 0
    /\ env = [ tts |-> FALSE, pydub |-> FALSE ]

\* the requests of R are about to arrive at a server with empty directories
MergedInit(R) ==
    /\ req = [ r \in R |-> NewRequest ]
    /\ temp_dir = << >>
    /\ audio_dir = << >>
    /\ audio_history = << >>
    /\ downloads = << >>
    /\ clock = 0
    /\ env \in [ tts : BOOLEAN, pydub : BOOLEAN ]

\* story_narration_merged serving one request
Init == AnalyzeInit /\ MergedInit({ 1 })

Next ==
    \/ Receive(1) /\ UNCHANGED analyze_vars
    \/ SynthesizeSegment(1) /\ UNCHANGED analyze_vars
    \/ EndCollect(1) /\ UNCHANGED analyze_vars
    \/ MergeLoad(1) /\ UNCHANGED analyze_vars
    \/ MergeExport(1) /\ UNCHANGED analyze_vars
    \/ MergeRecord(1) /\ UNCHANGED analyze_vars
    \/ MergeRespond(1) /\ UNCHANGED analyze_vars
    \/ Tick /\ UNCHANGED analyze_vars

Spec == Init /\ [][Next]_vars

\* analyze_story_content on a text of at most MaxLines lines
InitAnalyze == AnalyzeInit /\ MergedIdle

NextAnalyze ==
    \/ AnalyzeStep(RegistryLines) /\ UNCHANGED merged_vars
    \/ AnalyzeReturn /\ UNCHANGED merged_vars

SpecAnalyze == InitAnalyze /\ [][NextAnalyze]_vars

-----------------------------------------------------------------------------
(* Properties of story_narration_merged (specification Spec)               *)

IsOk(e) == e.result = "SYNTH_OK"
IsSkipped(e) == e.result = "SYNTH_SKIPPED"

\* the clips the providers returned for the segments of q, in segment order
ClipsOf(q) ==
    LET ok == SelectSeq(q.synth_log, IsOk)
    IN  [ k \in DOMAIN ok |-> ok[k].audio ]

\* every segment of q has been through the synthesis step
AllAttempted(q) == Len(q.synth_log) = Len(q.segments)

\* clips with one pause between each two neighbours, none at either end
Interleaved(clips) ==
    [ k \in 1 .. (2 * Len(clips) - 1) |->
        IF k % 2 = 1 THEN clips[(k + 1) \div 2] ELSE pause ]

MergingPcs == { "MERGING", "EXPORTING", "RECORDING", "CLEANING" }

\* C1: a success result reports as segment count the number k of clips that
\* were merged, not the number n of analyzed segments.
C1_SegmentsCountIsClipsMerged ==
    \A r \in DOMAIN req :
        req[r].outcome = "MERGED" =>
            req[r].response.segments_count = Len(req[r].audio_files)

\* C2: whenever a merged audio exists, it is exactly the clips returned for the
\* successful segments, in ascending segment order, with exactly one 500 ms
\* pause between consecutive clips and none before the first or after the
\* last; skipped segments add neither a clip nor a pause; the exported file
\* holds that audio.
C2_MergedIsClipsInOrderWithPauses ==
    \A r \in DOMAIN req :
        LET q == req[r]
        IN  (q.pc \in { "EXPORTING", "RECORDING", "CLEANING" } \/ q.outcome = "MERGED") =>
               /\ \A k \in DOMAIN q.synth_log : q.synth_log[k].seg = k - 1
               /\ ClipsOf(q) # << >>
               /\ q.merged_audio = Interleaved(ClipsOf(q))
               /\ pause.silent = 500
               /\ q.outcome = "MERGED" => audio_dir[q.merged_file] = q.merged_audio

\* a success after the middle one of three segments was skipped
C2_Witness ==
    \E r \in DOMAIN req :
        /\ req[r].outcome = "MERGED"
        /\ Len(req[r].synth_log) = 3
        /\ IsOk(req[r].synth_log[1]) /\ IsSkipped(req[r].synth_log[2]) /\ IsOk(req[r].synth_log[3])
        /\ Len(req[r].merged_audio) = 3

\* C3: a step of the collecting loop either moves on to the next segment
\* (with the segment stored or skipped, and no response) or ends the request
\* because storing a clip that WAS synthesized failed; so a synthesis failure
\* skips its segment only, answers nothing, changes no stored clip, and the
\* loop is only left with every segment attempted.
C3_Step(r) ==
    LET q == req[r]
        p == req'[r]
        last == p.synth_log[Len(p.synth_log)]
    IN  /\ (q.pc = "COLLECTING_SEGMENTS" /\ q.i < Len(q.segments) /\ p # q) =>
              /\ Len(p.synth_log) = Len(q.synth_log) + 1
              /\ last.seg = q.i
              /\ IsSkipped(last) =>
                    /\ p.pc = "COLLECTING_SEGMENTS"
                    /\ p.i = q.i + 1
                    /\ p.response = NoResponse
                    /\ p.outcome = None
                    /\ p.audio_files = q.audio_files
                    /\ temp_dir' = temp_dir
              /\ p.pc # "COLLECTING_SEGMENTS" => (IsOk(last) /\ p.outcome = "internal_error")
        /\ (q.pc = "COLLECTING_SEGMENTS" /\ p.pc \in MergingPcs \cup { "done" }
              /\ p.outcome # "internal_error") => AllAttempted(p)
C3_SynthesisFailureOnlySkips == [][\A r \in DOMAIN req : C3_Step(r)]_vars

\* segment 1 was skipped and segment 2 was attempted afterwards
C3_Witness ==
    \E r \in DOMAIN req :
        /\ Len(req[r].synth_log) >= 2
        /\ IsSkipped(req[r].synth_log[1])
        /\ req[r].response = NoResponse

\* every segment of q was attempted and none produced a clip
ZeroClips(q) ==
    /\ q.pc # "start" /\ q.outcome # "rejected"
    /\ AllAttempted(q)
    /\ \A k \in DOMAIN q.synth_log : IsSkipped(q.synth_log[k])

NoAudioResponse == ErrorResponse(500, "Failed to generate any audio segments")

ValidationErrors ==
    { ErrorResponse(400, m) : m \in { "No JSON data provided", "Text is required",
                                      "User ID is required", "No story segments found" } }

\* C4: when all segments were attempted and none produced a clip, the call
\* answers 500 'Failed to generate any audio segments' (an answer that no
\* other case gives and that is none of the validation errors), never enters
\* the merge, and leaves no merged file, history row or download row.
C4_ZeroClipsFail ==
    \A r \in DOMAIN req :
        LET q == req[r]
        IN  /\ ZeroClips(q) =>
                 /\ q.pc \in { "COLLECTING_SEGMENTS", "done" }
                 /\ q.pc = "done" => (q.outcome = "no_audio" /\ q.response = NoAudioResponse)
                 /\ q.merged_audio = << >>
                 /\ q.merged_file = NoPath
                 /\ audio_dir = << >> /\ audio_history = << >> /\ downloads = << >>
            /\ q.response = NoAudioResponse => ZeroClips(q)
            /\ NoAudioResponse \notin ValidationErrors

\* a call that failed after two segments were both skipped
C4_Witness ==
    \E r \in DOMAIN req :
        /\ req[r].pc = "done" /\ ZeroClips(req[r])
        /\ Len(req[r].segments) >= 2

\* C5: once the merge step was reached, every temporary file written by the
\* call is gone when the response is returned, whether the merge succeeded or
\* failed for any reason.
C5_TempFilesDeletedAfterMerge ==
    \A r \in DOMAIN req :
        (req[r].pc = "done" /\ req[r].outcome \in { "MERGED", "MERGE_FAILED" }) =>
            \A k \in DOMAIN req[r].temp_files : req[r].temp_files[k] \notin DOMAIN temp_dir

\* C6: on every exit path, no temporary file created by the call remains
\* when the call returns.
C6_NoTempFileAfterReturn ==
    \A r \in DOMAIN req :
        req[r].pc = "done" =>
            \A i \in 0 .. MaxSegments : temp_path(req[r].user_id, i) \notin DOMAIN temp_dir

\* The state machine of one call, with the set of terminal states a call that
\* passed validation may end in.
C7_Transition(r, terminals) ==
    LET q == req[r]
        p == req'[r]
        last == p.synth_log[Len(p.synth_log)]
    IN  p # q =>
          /\ q.pc # "done"
          /\ q.pc = "start" =>
                \/ p.pc = "COLLECTING_SEGMENTS" /\ p.i = 0 /\ p.synth_log = << >>
                \/ p.pc = "done" /\ p.outcome = "rejected" /\ p.response \in ValidationErrors
          /\ q.pc = "COLLECTING_SEGMENTS" =>
                \/ /\ p.pc = "COLLECTING_SEGMENTS"        \* SYNTH_ATTEMPTED -> SYNTH_OK | SYNTH_SKIPPED
                   /\ p.i = q.i + 1 /\ Len(p.synth_log) = p.i
                   /\ IsOk(last) \/ IsSkipped(last)
                \/ /\ p.pc = "MERGING"
                   /\ AllAttempted(q) /\ q.audio_files # << >>
                \/ /\ p.pc = "done" /\ p.outcome = "no_audio"
                   /\ AllAttempted(q) /\ q.audio_files = << >>
                \/ /\ p.pc = "done" /\ p.outcome = "internal_error"
          /\ q.pc = "MERGING" =>
                (p.pc = "EXPORTING" \/ (p.pc = "done" /\ p.outcome = "MERGE_FAILED"))
          /\ q.pc = "EXPORTING" =>
                (p.pc = "RECORDING" \/ (p.pc = "done" /\ p.outcome = "MERGE_FAILED"))
          /\ q.pc = "RECORDING" => p.pc = "CLEANING"
          /\ q.pc = "CLEANING" => (p.pc = "done" /\ p.outcome = "MERGED")
          /\ p.pc = "done" =>
                /\ p.outcome \in terminals \cup { "rejected" }
                /\ p.response.status = 200 <=> p.outcome = "MERGED"

\* C7 as claimed: the terminal states are the zero-clip failure, MERGE_FAILED
\* and MERGED.
C7_ThreeTerminalStates ==
    [][\A r \in DOMAIN req : C7_Transition(r, { "no_audio", "MERGE_FAILED", "MERGED" })]_vars

\* C7: every call follows COLLECTING_SEGMENTS -> (per segment SYNTH_OK |
\* SYNTH_SKIPPED) -> MERGING -> MERGED | MERGE_FAILED; MERGING is entered only
\* with all segments attempted and at least one clip; a call that passed
\* validation ends in exactly one of the zero-clip failure, MERGE_FAILED,
\* MERGED or the internal error raised while a clip is being stored; only
\* MERGED answers with success.
C7_StateMachine ==
    [][\A r \in DOMAIN req :
          C7_Transition(r, { "no_audio", "MERGE_FAILED", "MERGED", "internal_error" })]_vars

\* a call that ended with the internal error after one clip had been stored
C7_Witness ==
    \E r \in DOMAIN req :
        /\ req[r].pc = "done" /\ req[r].outcome = "internal_error"
        /\ req[r].response = ErrorResponse(500, "Internal server error")
        /\ Len(req[r].audio_files) >= 1

-----------------------------------------------------------------------------
(* Properties of analyze_story_content (specification SpecAnalyze)         *)

DialogueIndexes(k) == { j \in 1 .. k : segments[j].is_dialogue }

\* the labels of the dialogue segments among the first k segments
DialogueLabels(k) == { segments[j].character : j \in DialogueIndexes(k) }

\* c is the Rank(c)-th distinct dialogue character in order of first appearance
FirstIndex(c) ==
    CHOOSE j \in DialogueIndexes(Len(segments)) :
        /\ segments[j].character = c
        /\ \A o \in DialogueIndexes(Len(segments)) : segments[o].character = c => j <= o
Rank(c) == Cardinality(DialogueLabels(FirstIndex(c)))

\* C8: within one analysis, any two dialogue segments with the same character
\* label have the same voice, whichever rule produced the label and whatever
\* the letter case of the name in the input.
C8_SameCharacterSameVoice ==
    \A i, j \in DOMAIN segments :
        (/\ segments[i].is_dialogue /\ segments[j].is_dialogue
         /\ segments[i].character = segments[j].character)
        => segments[i].voice = segments[j].voice

\* 'tom (sad): "hi"' and, after another character was bound, '"hi," said TOM'
C8_Witness ==
    /\ line_blank \notin Range(lines)
    /\ \E i, k, j \in DOMAIN segments :
          /\ i < k /\ k < j
          /\ lines[i] = line_cue_tom /\ lines[j] = line_said_TOM
          /\ segments[i].character = segments[j].character
          /\ segments[k].is_dialogue
          /\ segments[k].character # segments[i].character

\* C9: the registry never binds a dialogue character to voices[0], so no
\* dialogue segment has the narrator's voice.
C9_NarratorVoiceReserved ==
    /\ \A c \in DOMAIN character_voices : character_voices[c] # narrator_voice
    /\ \A j \in DOMAIN segments : segments[j].is_dialogue => segments[j].voice # narrator_voice

\* C10, one iteration: a dialogue line whose character is bound gets the bound
\* voice and changes neither table nor counter; one whose character is new
\* binds it to voices[counter mod 5] and adds exactly one to the counter; a
\* narration line touches neither.
C10_Step ==
    segments' # segments =>
        LET s == segments'[Len(segments')]
            c == s.character
        IN  IF ~s.is_dialogue
            THEN character_voices' = character_voices /\ current_voice_index' = current_voice_index
            ELSE IF c \in DOMAIN character_voices
            THEN /\ character_voices' = character_voices
                 /\ current_voice_index' = current_voice_index
                 /\ s.voice = character_voices[c]
            ELSE /\ DOMAIN character_voices' = (DOMAIN character_voices) \cup { c }
                 /\ \A o \in DOMAIN character_voices : character_voices'[o] = character_voices[o]
                 /\ character_voices'[c] = voices[(current_voice_index % 5) + 1]
                 /\ current_voice_index' = current_voice_index + 1
                 /\ s.voice = character_voices'[c]

\* C10, every state: the counter is 1 plus the number of bindings, the bound
\* characters are the dialogue characters seen, and the k-th distinct one in
\* order of first appearance has voices[k mod 5].
C10_State ==
    /\ current_voice_index = 1 + Cardinality(DOMAIN character_voices)
    /\ DOMAIN character_voices = DialogueLabels(Len(segments))
    /\ \A c \in DOMAIN character_voices :
          character_voices[c] = voices[(Rank(c) % 5) + 1]

\* C10: assign(character) returns the bound voice without changing table or
\* counter, or binds voices[counter mod 5] and increments the counter by one;
\* hence the k-th distinct character gets voices[k mod 5] and the counter is
\* always 1 plus the number of bindings.
C10_AssignVoice == [][C10_Step /\ C10_State']_vars

\* five distinct characters are bound: the fifth took voices[5 mod 5]
C10_Witness ==
    /\ Cardinality(DOMAIN character_voices) = 5
    /\ current_voice_index = 6
    /\ \E c \in DOMAIN character_voices : Rank(c) = 5

-----------------------------------------------------------------------------
(* analyze_story_content on story lines of every kind                      *)

MaxStoryLines == 3

\* it rained.
line_period == << w_it, SP, w_rained, DOT >>
\* 'hi' said tom
line_single_quoted == << SQ, w_hi, SQ, SP, SAID, SP, w_tom >>
\* Maya (excited): "We found it!"
line_maya ==
    << << "M","a","y","a" >>, SP, LP, << "e","x","c","i","t","e","d" >>, RP, COLON, SP,
       DQ, << "W","e" >>, SP, << "f","o","u","n","d" >>, SP, w_it, BANG, DQ >>
\* ANN ( HAPPY ): sad!
line_cue_loud == << w_ANN, SP, LP, SP, w_HAPPY, SP, RP, COLON, SP, w_sad, BANG >>
\* tom (sad): "hi" said ann
line_cue_attributed ==
    << w_tom, SP, LP, w_sad, RP, COLON, SP, DQ, w_hi, DQ, SP, SAID, SP, w_ann >>
\* ann murmured hi!
line_murmured == << w_ann, SP, << "m","u","r","m","u","r","e","d" >>, SP, w_hi, BANG >>
\* it rained sadly!
line_sadly == << w_it, SP, w_rained, SP, << "s","a","d","l","y" >>, BANG >>
\* ann wondered softly
line_wondered ==
    << w_ann, SP, << "w","o","n","d","e","r","e","d" >>, SP, << "s","o","f","t","l","y" >> >>
\* tom (tired): strange?
line_cue_tired ==
    << w_tom, SP, LP, << "t","i","r","e","d" >>, RP, COLON, SP,
       << "s","t","r","a","n","g","e" >>, QM >>
\* tom (sad): "don't go"
line_cue_apostrophe ==
    << w_tom, SP, LP, w_sad, RP, COLON, SP,
       DQ, << "d","o","n" >>, SQ, << "t" >>, SP, << "g","o" >>, DQ >>
\* character (calm): hi
line_cue_character ==
    << << "c","h","a","r","a","c","t","e","r" >>, SP, LP, << "c","a","l","m" >>, RP,
       COLON, SP, w_hi >>
\* tom (sad):
line_cue_empty == << w_tom, SP, LP, w_sad, RP, COLON >>
\* tom (sad: "hi
line_malformed == << w_tom, SP, LP, w_sad, COLON, SP, DQ, w_hi >>

StoryLines ==
    { line_narration, line_period, line_blank, line_single_quoted,
      line_maya, line_cue_loud, line_cue_attributed, line_cue_tired,
      line_cue_apostrophe, line_cue_character, line_cue_empty,
      line_murmured, line_sadly, line_wondered,
      line_quote, line_said_TOM, line_malformed }

\* for line in lines: ... on a text of at most MaxStoryLines story lines
StoryStep ==
    /\ Len(lines) < MaxStoryLines
    /\ AnalyzeStep(StoryLines)

NextStory ==
    \/ StoryStep /\ UNCHANGED merged_vars
    \/ AnalyzeReturn /\ UNCHANGED merged_vars

SpecStory == InitAnalyze /\ [][NextStory]_vars

-----------------------------------------------------------------------------------------------------------------------------------------------------
(* Properties of analyze_story_content (specification SpecStory)           *)

\* the lines that pass "if not line: continue", stripped, in text order
RECURSIVE NonBlank(_)
NonBlank(ls) ==
    IF ls = << >> THEN << >>
    ELSE (IF StripLine(Head(ls)) = << >> THEN << >> ELSE << StripLine(Head(ls)) >>)
         \o NonBlank(Tail(ls))

\* segment i is paired with the i-th non-blank line
Paired == DOMAIN segments \cap DOMAIN NonBlank(lines)
LineOf(i) == NonBlank(lines)[i]

\* P(s, l) holds of every segment s and the non-blank line l it is paired with
EverySegment(P(_, _)) ==
    \A nb \in { NonBlank(lines) } :
        \A i \in DOMAIN segments \cap DOMAIN nb : P(segments[i], nb[i])

\* analyze_story_content has returned: segments is its result for the text lines
Returned == a_pc = "returned"

NARRATOR == << "N","a","r","r","a","t","o","r" >>

HasDoubleQuote(l) == DQ \in Range(l)
\* 'Name (emotion):' somewhere in the line
HasCue(l) == \E i \in DOMAIN l : character_match(SubSeq(l, i, Len(l))).matched

\* C11: when no line of the document read so far contains a double quote or
\* a structured 'Name (emotion):' cue, every segment has character Narrator,
\* is_dialogue false and voice voices[0] = 'david', and the binding table is
\* empty.
C11_NarrationOnly ==
    (\A i \in DOMAIN lines : ~HasDoubleQuote(lines[i]) /\ ~HasCue(lines[i]))
    => /\ character_voices = << >>
       /\ \A j \in DOMAIN segments :
             /\ segments[j].character = NARRATOR
             /\ segments[j].is_dialogue = FALSE
             /\ segments[j].voice = "david"

\* three narration lines, one of them with single quotes and "said"
C11_Witness ==
    /\ Len(segments) = 3
    /\ line_single_quoted \in Range(lines)
    /\ line_murmured \in Range(lines)
    /\ \A i \in DOMAIN lines : ~HasDoubleQuote(lines[i]) /\ ~HasCue(lines[i])

\* the text of segment s is taken from line l: it is a piece of the line,
\* possibly followed by one added '.'; and s is dialogue exactly when l has a
\* cue at its start or a double-quoted part
DerivesFrom(s, l) ==
    /\ \/ Contains(Flat(l), s.text)
       \/ /\ s.text # << >> /\ s.text[Len(s.text)] = "."
          /\ Contains(Flat(l), SubSeq(s.text, 1, Len(s.text) - 1))
    /\ s.is_dialogue = (character_match(l).matched \/ dialogue_match(l))

\* C12: the result has exactly one segment per line that is non-blank after
\* trimming (so no more segments than lines), and the i-th segment derives
\* from the i-th non-blank line: no non-blank line is rejected or dropped.
C12_OneSegmentPerNonBlankLine ==
    Returned =>
        /\ Len(segments) = Len(NonBlank(lines))
        /\ Len(segments) <= Len(lines)
        /\ EverySegment(DerivesFrom)

\* a blank line between a malformed cue (no ")", one quote) and a quote: two
\* segments of three lines, in line order, the malformed line as narration
C12_Witness ==
    /\ Returned
    /\ lines = << line_malformed, line_blank, line_quote >>
    /\ Len(segments) = 2
    /\ ~segments[1].is_dialogue /\ segments[2].is_dialogue

\* the label the first matching rule gives to line l, in the order cue,
\* attributed quote, unattributed quote, narration
FirstMatchLabel(s, l) ==
    IF character_match(l).matched
    THEN s.is_dialogue /\ s.character = Title(character_match(l).group1)
    ELSE IF dialogue_match(l) /\ speaker_match(l).matched
    THEN s.is_dialogue /\ s.character = Title(speaker_match(l).group)
    ELSE IF dialogue_match(l)
    THEN s.is_dialogue /\ StartsWith(s.character, CHARACTER \o SP)
    ELSE ~s.is_dialogue /\ s.character = NARRATOR

\* C13: the rules are tried in the order cue, attributed quote, unattributed
\* quote, narration and the first that matches decides the segment: a line
\* with a cue at its start is labelled with the cue name even when it also has
\* a quoted part and a said/asked/replied attribution, and the registry holds
\* exactly the labels of the dialogue segments, so such a line binds the cue
\* name only.
C13_FirstMatchWins ==
    Returned =>
        /\ EverySegment(FirstMatchLabel)
        /\ DOMAIN character_voices = DialogueLabels(Len(segments))

\* 'tom (sad): "hi" said ann' matches all three patterns; only Tom is bound
C13_Witness ==
    /\ Returned
    /\ lines = << line_cue_attributed >>
    /\ character_match(line_cue_attributed).matched
    /\ dialogue_match(line_cue_attributed)
    /\ speaker_match(line_cue_attributed).matched
    /\ Len(segments) = 1
    /\ DOMAIN character_voices = { Title(w_tom) }

\* the emotion of a cue, lowercased and trimmed
CueEmotion(l) == Strip(Lower(character_match(l).group2))
IsKeyword(h) == \E k \in DOMAIN emotion_mapping : emotion_mapping[k].emotion = h
LexiconTone(h) ==
    emotion_mapping[CHOOSE k \in DOMAIN emotion_mapping : emotion_mapping[k].emotion = h].mapped_tone

CueToneIsLexiconTone(s, l) ==
    (character_match(l).matched /\ IsKeyword(CueEmotion(l)))
    => s.tone = LexiconTone(CueEmotion(l))

\* C14: the segment of a cue line whose emotion, lowercased and trimmed, is a
\* lexicon keyword has the lexicon's tone for that keyword, whatever the case
\* of the emotion in the input and whatever keywords or '!' the dialogue
\* text contains.
C14_CueEmotionDecidesTone == Returned => EverySegment(CueToneIsLexiconTone)

\* 'ANN ( HAPPY ): sad!' is cheerful although its text has "sad" and '!'
C14_Witness ==
    /\ Returned
    /\ lines = << line_cue_loud >>
    /\ CueEmotion(line_cue_loud) = << "h","a","p","p","y" >>
    /\ Contains(segments[1].text, w_sad) /\ Contains(segments[1].text, BANG)
    /\ segments[1].tone = "cheerful"

\* the raw spoken text of a line: the dialogue of a cue, else the whole line
SpokenText(l) ==
    IF character_match(l).matched THEN Strip(character_match(l).group3) ELSE Flat(l)

\* the line leaves the classification with tone neutral
StillNeutral(l) ==
    ~character_match(l).matched \/ ~IsKeyword(CueEmotion(l))

\* the refined tone of a lowercased spoken text t, rule by rule
RefinedInOrder(tone, t) ==
    \A kw \in { { k \in DOMAIN emotion_mapping : Contains(t, emotion_mapping[k].emotion) } } :
        LET Has(ws) == \E w \in Range(ws) : Contains(t, w)
        IN  IF kw # {}
            THEN tone = emotion_mapping[CHOOSE k \in kw : \A o \in kw : k <= o].mapped_tone
            ELSE IF Has(angry_words) THEN tone = "angry"
            ELSE IF Has(calm_words) THEN tone = "calm"
            ELSE IF Has(suspenseful_words) THEN tone = "suspenseful"
            ELSE tone = "neutral"

NeutralToneRefined(s, l) ==
    StillNeutral(l) => \A t \in { Lower(SpokenText(l)) } : RefinedInOrder(s.tone, t)

\* C15: for a segment whose tone is neutral after classification, the first
\* lexicon keyword (in lexicon order) that is a substring of the lowercased
\* spoken text gives the tone; when there is none, '!', exclaimed, shouted,
\* yelled give angry, else whispered, murmured, softly give calm, else
\* wondered, mysterious, strange give suspenseful, else the tone is neutral.
C15_RefinementOrder == Returned => EverySegment(NeutralToneRefined)

\* a keyword next to '!', '!' next to a whisper word, a whisper word next to
\* a mystery word: sad, angry, calm
C15_Witness ==
    /\ Returned
    /\ lines = << line_sadly, line_murmured, line_wondered >>
    /\ segments[1].tone = "sad"
    /\ segments[2].tone = "angry"
    /\ segments[3].tone = "calm"

\* REST of a cue line 'Name (emotion): REST': everything after the colon
CueRest(l) ==
    LET p == SkipSpaces(l, 2)
        q == FirstOf(l, p + 1, { RP })
    IN  Strip(Flat(SubSeq(l, q + 2, Len(l))))

IsQuoteChar(c) == c = "\"" \/ c = "'"

\* s without the quote character it starts with and the one it ends with
Unquote(s) ==
    LET a == IF s # << >> /\ IsQuoteChar(s[1]) THEN Tail(s) ELSE s
    IN  IF a # << >> /\ IsQuoteChar(a[Len(a)]) THEN SubSeq(a, 1, Len(a) - 1) ELSE a

CueTextIsRest(s, l) ==
    character_match(l).matched => s.text = clean_text(Strip(Unquote(CueRest(l))))

\* C16: the text of the segment of a cue line 'Name (emotion): REST' is the
\* whole REST without its surrounding quote characters (and with the final
\* '.' of the punctuation rule), also when REST has an apostrophe or a quote
\* character inside.
C16_CueTextIsWholeRest == Returned => EverySegment(CueTextIsRest)

WE_FOUND_IT == << "W","e"," ","f","o","u","n","d"," ","i","t","!" >>

\* the one segment of the document 'Maya (excited): "We found it!"', but for
\* its text
MayaSegment(text) ==
    /\ Len(segments) = 1
    /\ segments[1].character = << "M","a","y","a" >>
    /\ segments[1].voice = voices[2]
    /\ segments[1].tone = "cheerful"
    /\ segments[1].is_dialogue = TRUE
    /\ segments[1].text = text

\* C17 as stated: the document 'Maya (excited): "We found it!"' yields one
\* segment with character Maya, voice voices[1], tone cheerful, is_dialogue
\* true and text 'We found it!.'.
C17_MayaScenarioAsStated ==
    (Returned /\ lines = << line_maya >>) => MayaSegment(WE_FOUND_IT \o << "." >>)

\* C17, amended: the document 'Maya (excited): "We found it!"' yields one
\* segment with character Maya, voice voices[1], tone cheerful, is_dialogue
\* true and text 'We found it!' (the text ends in '!', nothing is appended).
C17_MayaScenario ==
    (Returned /\ lines = << line_maya >>) => MayaSegment(WE_FOUND_IT)

\* the document has been analyzed
C17_Witness ==
    /\ Returned
    /\ lines = << line_maya >>
    /\ Flat(line_maya) = << "M","a","y","a"," ","(","e","x","c","i","t","e","d",")",":"," ","\"" >>
                         \o WE_FOUND_IT \o << "\"" >>
    /\ Len(segments) = 1

EndsInTerminal(s) == s # << >> /\ s[Len(s)] \in { ".", "!", "?" }

Normalized(s, l) ==
    \A raw \in { SpokenText(l) } :
        /\ ~EndsInTerminal(raw) => s.text = raw \o << "." >>
        /\ EndsInTerminal(raw) => s.text = raw
        /\ s.text # << >> /\ EndsInTerminal(s.text)
        /\ clean_text(s.text) = s.text

\* C18: the text of a segment is its raw spoken text with exactly one '.'
\* appended when the raw text does not end in '.', '!' or '?', and the raw
\* text itself when it does; so every text is non-empty and ends in '.', '!'
\* or '?', and normalizing it again changes nothing.
C18_TextNormalization == Returned => EverySegment(Normalized)

\* raw texts ending in '.', '!' or '?', in another character, and an empty one
C18_Witness ==
    /\ Returned
    /\ Len(lines) = 3
    /\ line_blank \notin Range(lines)
    /\ \E i \in Paired : SpokenText(LineOf(i)) = << >> /\ segments[i].text = << "." >>
    /\ \E i \in Paired :
          /\ EndsInTerminal(SpokenText(LineOf(i)))
          /\ segments[i].text = SpokenText(LineOf(i))
    /\ \E i \in Paired :
          /\ SpokenText(LineOf(i)) # << >>
          /\ ~EndsInTerminal(SpokenText(LineOf(i)))
          /\ segments[i].text = SpokenText(LineOf(i)) \o << "." >>

\* a quoted line with no cue and no said/asked/replied attribution
Unattributed(l) ==
    /\ ~character_match(l).matched
    /\ dialogue_match(l)
    /\ ~speaker_match(l).matched

\* C19: the segment of an unattributed quoted line is labelled 'Character N',
\* N being one more than the number of generic labels assigned before it in
\* the document (one per earlier unattributed quoted line); named speakers,
\* also one named 'Character', do not count.
C19_GenericLabelNumber ==
    \A i \in Paired :
        Unattributed(LineOf(i))
        => segments[i].character
              = CHARACTER \o SP
                \o Str(1 + Cardinality({ j \in 1 .. (i - 1) : Unattributed(LineOf(j)) }))

\* C20: the emotion of a segment is its tone when the tone is not neutral
\* and None when it is.
C20_EmotionIsToneOrNone ==
    \A j \in DOMAIN segments :
        /\ segments[j].tone # "neutral" => segments[j].emotion = segments[j].tone
        /\ segments[j].tone = "neutral" => segments[j].emotion = None

\* a neutral narration segment and a cheerful dialogue segment
C20_Witness ==
    /\ lines = << line_narration, line_maya >>
    /\ segments[1].tone = "neutral" /\ segments[1].emotion = None
    /\ segments[2].tone = "cheerful" /\ segments[2].emotion = "cheerful"

-----------------------------------------------------------------------------
(* Voices and tones of the segments (specification SpecAnalyze)            *)

PoolMembers == { "david", "zira", "heera", "mark", "ravi" }
ToneIds == { "neutral", "cheerful", "sad", "angry", "calm", "suspenseful", "confident" }

\* C21: every segment's voice is one of the five pool members and its tone
\* is one of neutral, cheerful, sad, angry, calm, suspenseful, confident (the
\* only tones the lexicon and the cue words can give); hence the voice handed
\* to the fallback synthesizer, VOICE_MAPPING[voice], is always defined.
C21_VoicesAndTonesAreKnown ==
    /\ \A j \in DOMAIN segments :
          /\ segments[j].voice \in PoolMembers
          /\ segments[j].voice \in DOMAIN VOICE_MAPPING
          /\ segments[j].tone \in ToneIds
    /\ \A c \in DOMAIN character_voices : character_voices[c] \in PoolMembers
    /\ \A k \in DOMAIN emotion_mapping : emotion_mapping[k].mapped_tone \in ToneIds
    /\ PoolMembers \subseteq DOMAIN VOICE_MAPPING

\* five characters and the narrator have spoken: all five voices are in use
C21_Witness ==
    /\ { segments[j].voice : j \in DOMAIN segments } = PoolMembers
    /\ \E j \in DOMAIN segments : segments[j].tone # "neutral"

-----------------------------------------------------------------------------
(* Concurrent calls of analyze_story_content (specification SpecCalls).    *)
(* Each variable of the analysis holds, per call, the local of that name.  *)

MaxCallLines == 3

\* the worker threads that run analyses, one after the other each
Calls == { 1, 2 }

CallLines == { line_cue_tom, line_cue_ANN, line_quote }

\* whose locals call c uses if the registry were one module-level table
registry_of_shared(c) == 1

\* character_voices and current_voice_index are locals: call c has its own
registry_of(c) == c

CallsInit ==
    /\ lines = [ c \in Calls |-> << >> ]
    /\ segments = [ c \in Calls |-> << >> ]
    /\ character_voices = [ c \in Calls |-> << >> ]
    /\ current_voice_index = [ c \in Calls |-> 1 ]
    /\ a_pc = [ c \in Calls |-> "idle" ]

\* lines 1511-1515: a call begins
CallStart(c) ==
    /\ a_pc[c] \in { "idle", "returned" }
    /\ a_pc' = [ a_pc EXCEPT ![c] = "loop" ]
    /\ lines' = [ lines EXCEPT ![c] = << >> ]
    /\ segments' = [ segments EXCEPT ![c] = analyze_start.segments ]
    /\ character_voices' =
          [ character_voices EXCEPT ![registry_of(c)] = analyze_start.character_voices ]
    /\ current_voice_index' =
          [ current_voice_index EXCEPT ![registry_of(c)] = analyze_start.current_voice_index ]

\* one iteration of "for line in lines" in call c
CallStep(c) ==
    /\ a_pc[c] = "loop"
    /\ Len(lines[c]) < MaxCallLines
    /\ \E line \in CallLines :
          \E st \in { analyze_line(
                        [ segments |-> segments[c],
                          character_voices |-> character_voices[registry_of(c)],
                          current_voice_index |-> current_voice_index[registry_of(c)] ],
                        line) } :
              /\ lines' = [ lines EXCEPT ![c] = Append(@, line) ]
              /\ segments' = [ segments EXCEPT ![c] = st.segments ]
              /\ character_voices' =
                    [ character_voices EXCEPT ![registry_of(c)] = st.character_voices ]
              /\ current_voice_index' =
                    [ current_voice_index EXCEPT ![registry_of(c)] = st.current_voice_index ]
    /\ a_pc' = a_pc

\* return segments
CallReturn(c) ==
    /\ a_pc[c] = "loop"
    /\ a_pc' = [ a_pc EXCEPT ![c] = "returned" ]
    /\ UNCHANGED << lines, segments, character_voices, current_voice_index >>

InitCalls == CallsInit /\ MergedIdle

NextCalls ==
    \/ \E c \in Calls : CallStart(c) /\ UNCHANGED merged_vars
    \/ \E c \in Calls : CallStep(c) /\ UNCHANGED merged_vars
    \/ \E c \in Calls : CallReturn(c) /\ UNCHANGED merged_vars

SpecCalls == InitCalls /\ [][NextCalls]_vars

\* C22: a call that has just begun has an empty binding table and counter 1,
\* and at every moment of a call its segments are those of its own lines
\* analyzed alone, whatever other calls ran before it or run beside it.
C22_RegistryIsPerCall ==
    \A c \in Calls :
        a_pc[c] # "idle" =>
            /\ lines[c] = << >> => (character_voices[c] = << >> /\ current_voice_index[c] = 1)
            /\ segments[c] = analyze_story_content(lines[c])

\* both calls are in the middle of different documents, each with a binding
\* of its own first character to the same voice
C22_Witness ==
    /\ a_pc[1] = "loop" /\ a_pc[2] = "loop"
    /\ lines[1] = << line_cue_tom, line_quote >>
    /\ lines[2] = << line_cue_ANN, line_cue_tom >>
    /\ character_voices[1] # << >> /\ character_voices[2] # << >>
    /\ segments[1][1].voice = segments[2][1].voice

-----------------------------------------------------------------------------
(* story_narration, story_narration_audio and story_narration_merged: one  *)
(* request, sent to one of the three endpoints                              *)

MaxEndpointLines == 2

\* the lines of the texts sent to the endpoints
EndpointLines == { line_cue_tom, line_blank }

\* data.get('voice', 'david').lower(): a key of VOICE_MAPPING or not
RequestVoices == { "david", "bogus" }

\* request.get_json(): nothing, or a body with text, user id and voice
EndpointData ==
    { [ json |-> FALSE ] }
    \cup { [ json |-> TRUE, text |-> t, user_id |-> u, voice |-> v ] :
             t \in SeqsUpTo(EndpointLines, MaxEndpointLines),
             u \in Users \cup { None }, v \in RequestVoices }

\* jsonify({'success': True, 'segments': segments, 'total_segments': ...,
\*          'voices_used': ..., 'tones_used': ...})
narration_result(found) ==
    [ status |-> 200, success |-> TRUE, segments |-> found,
      total_segments |-> Len(found),
      voices_used |-> { found[k].voice : k \in DOMAIN found },
      tones_used |-> { found[k].tone : k \in DOMAIN found } ]

\* story_narration without the check of the text
story_narration_no_text_check(data) ==
    IF ~data.json THEN ErrorResponse(400, "No JSON data provided")
    ELSE IF data.user_id = None THEN ErrorResponse(400, "User ID is required")
    ELSE narration_result(analyze_story_content(StripText(data.text)))

\* story_narration, lines 1130-1160: the response to a body
story_narration(data) ==
    IF ~data.json THEN ErrorResponse(400, "No JSON data provided")
    ELSE IF StripText(data.text) = << >> THEN ErrorResponse(400, "Text is required")
    ELSE IF data.user_id = None THEN ErrorResponse(400, "User ID is required")
    ELSE narration_result(analyze_story_content(StripText(data.text)))

\* the locals of story_narration before the request arrives
NewNarrationRequest ==
    [ endpoint |-> "story_narration", pc |-> "start_narration",
      data |-> [ json |-> FALSE ], response |-> NoResponse ]

\* the locals of story_narration_audio before the request arrives
NewAudioRequest ==
    [ endpoint |-> "story_narration_audio", pc |-> "start_audio",
      data |-> [ json |-> FALSE ], text |-> << >>, voice |-> None, user_id |-> None,
      history_id |-> NoId, audio_data |-> NoAudio, file_path |-> NoPath,
      file_size_bound |-> FALSE, file_size |-> 0, response |-> NoResponse ]

\* f'story_segment_{user_id}_{voice}_{segment_id}_{timestamp}.wav' and
\* f'..._{timestamp}_watson.wav' in audio_files/
segment_path(user_id, voice, segment_id, timestamp, provider) ==
    [ user |-> user_id, voice |-> voice, segment |-> segment_id,
      ts |-> timestamp, by |-> provider ]

\* len(audio_data): the size of a clip grows with its length
clip_size(audio_data) == audio_data.ms

\* story_narration serving a request
Narrate(r) ==
    /\ req[r].pc = "start_narration"
    /\ \E data \in EndpointData :
          req' = [ req EXCEPT ![r] =
                     [ @ EXCEPT !.pc = "done", !.data = data,
                                !.response = story_narration(data) ] ]
    /\ UNCHANGED << temp_dir, audio_dir, audio_history, downloads, clock, env >>

\* audio_validate without the check of the user id
audio_validate_no_user_check(data) ==
    IF ~data.json THEN ErrorResponse(400, "No JSON data provided")
    ELSE IF StripText(data.text) = << >> THEN ErrorResponse(400, "Text is required")
    ELSE IF data.voice \notin DOMAIN VOICE_MAPPING THEN ErrorResponse(400, "Invalid voice")
    ELSE NoResponse

\* story_narration_audio, lines 1166-1184: the 400 answer to a body, if any
audio_validate(data) ==
    IF ~data.json THEN ErrorResponse(400, "No JSON data provided")
    ELSE IF StripText(data.text) = << >> THEN ErrorResponse(400, "Text is required")
    ELSE IF data.voice \notin DOMAIN VOICE_MAPPING THEN ErrorResponse(400, "Invalid voice")
    ELSE IF data.user_id = None THEN ErrorResponse(400, "User ID is required")
    ELSE NoResponse

\* lines 1166-1196: read the body, validate, create the history record
AudioReceive(r) ==
    /\ req[r].pc = "start_audio"
    /\ \E data \in EndpointData, saved \in BOOLEAN :
          LET q == req[r]
              rejection == audio_validate(data)
              history_id == IF saved THEN Len(audio_history) + 1 ELSE NoId
              user_id == IF data.json THEN data.user_id ELSE None
              voice == IF data.json THEN data.voice ELSE None
              row == [ id |-> history_id, user_id |-> user_id,
                       rewritten_text |-> "Story segment",
                       tone |-> "neutral", voice |-> voice,
                       audio_file_path |-> NoPath, processing_status |-> "pending" ]
          IN  IF rejection # NoResponse
              THEN /\ ~saved
                   /\ req' = [ req EXCEPT ![r] =
                                 [ q EXCEPT !.pc = "done", !.data = data, !.response = rejection ] ]
                   /\ audio_history' = audio_history
              ELSE /\ req' = [ req EXCEPT ![r] =
                                 [ q EXCEPT !.pc = "SYNTHESIZING_SEGMENT", !.data = data,
                                            !.text = StripText(data.text), !.voice = voice,
                                            !.user_id = user_id, !.history_id = history_id ] ]
                   /\ audio_history' = IF saved THEN Append(audio_history, row) ELSE audio_history
    /\ UNCHANGED << temp_dir, audio_dir, downloads, clock, env >>

\* lines 1198-1256: Hugging Face first, Watson if it gave nothing.
\*   hf, watson, wr as in SynthesizeSegment.  A failed write of the Hugging
\*   Face clip is caught by "except Exception" of line 1220, which only
\*   logs: audio_data and file_path keep their values, file_size has none.
AudioSynthesize(r) ==
    /\ req[r].pc = "SYNTHESIZING_SEGMENT"
    /\ \E hf \in { "audio", "none", "raise" },
          watson \in { "audio", "empty", "raise", "not called" },
          ms \in ClipLengths,
          wr \in { "ok", "open fails", "write fails" } :
          LET q == req[r]
              call_watson == hf # "audio" /\ env.tts        \* if not audio_data and tts
              provider == IF hf = "audio" THEN "hf" ELSE "watson"
              audio_data == Clip(r, 0, provider, ms)
              path == segment_path(q.user_id, q.voice, 0, clock, provider)
              written == IF wr = "ok" THEN (path :> << audio_data >>) @@ audio_dir
                         ELSE IF wr = "write fails"
                         THEN (path :> << [ partial |-> TRUE ] >>) @@ audio_dir
                         ELSE audio_dir
              answer(status, message) ==
                  [ q EXCEPT !.pc = "done", !.response = ErrorResponse(status, message) ]
          IN  /\ call_watson <=> watson # "not called"
              /\ (hf # "audio" /\ watson \notin { "audio", "empty" }) => wr = "ok"
              /\ IF hf = "audio"
                 THEN /\ audio_dir' = written
                      /\ req' = [ req EXCEPT ![r] =
                            [ q EXCEPT !.pc = "RECORDING_SEGMENT", !.audio_data = audio_data,
                                       !.file_path = path,
                                       !.file_size_bound = (wr = "ok"),
                                       !.file_size = IF wr = "ok" THEN clip_size(audio_data) ELSE 0 ] ]
                 ELSE IF ~call_watson
                 THEN \* if not audio_data: return ..., 503
                      /\ audio_dir' = audio_dir
                      /\ req' = [ req EXCEPT ![r] = answer(503, "TTS service not available") ]
                 ELSE IF watson = "raise"
                 THEN /\ audio_dir' = audio_dir
                      /\ req' = [ req EXCEPT ![r] = answer(500, "Failed to generate audio") ]
                 ELSE IF wr # "ok"
                 THEN \* the write raises inside the Watson try
                      /\ audio_dir' = written
                      /\ req' = [ req EXCEPT ![r] =
                            [ answer(500, "Failed to generate audio") EXCEPT !.file_path = path ] ]
                 ELSE IF watson = "empty"
                 THEN \* an empty file is written; "if not audio_data" is true
                      /\ audio_dir' = (path :> << >>) @@ audio_dir
                      /\ req' = [ req EXCEPT ![r] =
                            [ answer(503, "TTS service not available") EXCEPT
                                !.file_path = path, !.file_size_bound = TRUE ] ]
                 ELSE /\ audio_dir' = written
                      /\ req' = [ req EXCEPT ![r] =
                            [ q EXCEPT !.pc = "RECORDING_SEGMENT", !.audio_data = audio_data,
                                       !.file_path = path, !.file_size_bound = TRUE,
                                       !.file_size = clip_size(audio_data) ] ]
    /\ UNCHANGED << temp_dir, audio_history, downloads, clock, env >>

\* lines 1258-1287: update_audio_history_status, save_download (a NameError
\* for file_size is caught by line 1273), then the answer (a NameError for
\* file_size is caught by line 1289)
AudioRecord(r) ==
    /\ req[r].pc = "RECORDING_SEGMENT"
    /\ \E updated, download_saved \in BOOLEAN :
          LET q == req[r]
          IN  /\ q.history_id = NoId => ~updated /\ ~download_saved
              /\ ~q.file_size_bound => ~download_saved
              /\ audio_history' =
                    IF updated
                    THEN [ audio_history EXCEPT ![q.history_id] =
                             [ @ EXCEPT !.audio_file_path = q.file_path,
                                        !.processing_status = "completed" ] ]
                    ELSE audio_history
              /\ downloads' = IF download_saved
                              THEN Append(downloads,
                                     [ user_id |-> q.user_id, history_id |-> q.history_id,
                                       original_filename |-> "story_segment_0.wav",
                                       file_path |-> q.file_path ])
                              ELSE downloads
              /\ req' = [ req EXCEPT ![r] =
                    [ q EXCEPT !.pc = "done",
                               !.response =
                                  IF q.file_size_bound
                                  THEN [ status |-> 200, success |-> TRUE,
                                         filename |-> q.file_path, file_size |-> q.file_size ]
                                  ELSE ErrorResponse(500, "Internal server error") ] ]
    /\ UNCHANGED << temp_dir, audio_dir, clock, env >>

\* one request is about to arrive at one of the three endpoints
InitEndpoints ==
    /\ AnalyzeInit
    /\ req \in [ { 1 } -> { NewRequest, NewNarrationRequest, NewAudioRequest } ]
    /\ temp_dir = << >>
    /\ audio_dir = << >>
    /\ audio_history = << >>
    /\ downloads = << >>
    /\ clock = 0
    /\ env \in [ tts : BOOLEAN, pydub : BOOLEAN ]

NextEndpoints ==
    \/ Narrate(1) /\ UNCHANGED analyze_vars
    \/ AudioReceive(1) /\ UNCHANGED analyze_vars
    \/ AudioSynthesize(1) /\ UNCHANGED analyze_vars
    \/ AudioRecord(1) /\ UNCHANGED analyze_vars
    \/ ReceiveFrom(1, EndpointData) /\ UNCHANGED analyze_vars
    \/ SynthesizeSegment(1) /\ UNCHANGED analyze_vars
    \/ EndCollect(1) /\ UNCHANGED analyze_vars
    \/ MergeLoad(1) /\ UNCHANGED analyze_vars
    \/ MergeExport(1) /\ UNCHANGED analyze_vars
    \/ MergeRecord(1) /\ UNCHANGED analyze_vars
    \/ MergeRespond(1) /\ UNCHANGED analyze_vars
    \/ Tick /\ UNCHANGED analyze_vars

SpecEndpoints == InitEndpoints /\ [][NextEndpoints]_vars

-----------------------------------------------------------------------------
(* Claims about the validation of the endpoints                            *)

\* every character of the text is white space
AllWhitespace(t) ==
    \A k \in DOMAIN t : \A j \in DOMAIN t[k] : \A c \in DOMAIN t[k][j] : IsSpaceChar(t[k][j][c])

\* the request was sent to this endpoint
IsNarration(q) == "endpoint" \in DOMAIN q /\ q.endpoint = "story_narration"
IsAudio(q) == "endpoint" \in DOMAIN q /\ q.endpoint = "story_narration_audio"
IsMerged(q) == "endpoint" \notin DOMAIN q

\* the body had a text, and all of it was white space
SentBlankText(q) == q.data.json /\ AllWhitespace(q.data.text)

\* an error object with an error status, not a success
IsError(response) ==
    /\ response.status >= 400
    /\ "error" \in DOMAIN response
    /\ "success" \notin DOMAIN response

\* C23: for an all-whitespace text analyze_story_content returns the empty
\* list, and story_narration and story_narration_merged both answer with an
\* error status: neither ever answers with a success carrying zero segments
C23_BlankTextIsAnError ==
    \A r \in DOMAIN req : \A q \in { req[r] } :
       /\ (IsNarration(q) /\ q.pc = "done") =>
             /\ SentBlankText(q) =>
                   /\ analyze_story_content(q.data.text) = << >>
                   /\ IsError(q.response)
             /\ q.response.status = 200 => q.response.total_segments > 0
       /\ (IsMerged(q) /\ q.pc # "start") =>
             /\ q.text = << >> => (q.pc = "done" /\ IsError(q.response))
             /\ AllWhitespace(q.text) => analyze_story_content(q.text) = << >>
             /\ (q.pc = "done" /\ q.response.status = 200) => q.response.segments_count > 0

\* story_narration was sent two blank lines by a known user and answered 400
C23_Witness ==
    /\ IsNarration(req[1])
    /\ req[1].pc = "done"
    /\ req[1].data.json
    /\ req[1].data.text = << line_blank, line_blank >>
    /\ req[1].data.user_id \in Users
    /\ req[1].response = ErrorResponse(400, "Text is required")

\* the answers to a body without text and to a body without user id
InputErrors ==
    { ErrorResponse(400, "Text is required"), ErrorResponse(400, "User ID is required") }

\* nothing was processed: no analysis, no synthesis, no record, no file
NothingProcessed(q) ==
    /\ temp_dir = << >>
    /\ audio_dir = << >>
    /\ audio_history = << >>
    /\ downloads = << >>
    /\ IsMerged(q) => (q.segments = << >> /\ q.synth_log = << >> /\ q.history_id = NoId)
    /\ IsAudio(q) => (q.audio_data = NoAudio /\ q.history_id = NoId /\ q.file_path = NoPath)
    /\ IsNarration(q) => "segments" \notin DOMAIN q.response

\* the body had no text, a blank text or no user id.  story_narration_merged
\* keeps the text and the user id only when they passed their checks.
InputError(q) ==
    IF IsMerged(q)
    THEN q.response # ErrorResponse(400, "No JSON data provided")
         /\ (q.text = << >> \/ q.user_id = None)
    ELSE q.data.json /\ (AllWhitespace(q.data.text) \/ q.data.user_id = None)

\* the request was answered at once with a 400 error object
RejectedUnprocessed(q) ==
    /\ q.pc = "done"
    /\ q.response.status = 400
    /\ "error" \in DOMAIN q.response
    /\ NothingProcessed(q)

C24_Step ==
    \A r \in DOMAIN req :
       /\ \A q \in { req'[r] } :
             (q.pc # req[r].pc /\ InputError(q)) => RejectedUnprocessed(q)'
       /\ \A q \in { req[r] } :
             (q.pc = "done" /\ q.response \in InputErrors) =>
                UNCHANGED << req, temp_dir, audio_dir, audio_history, downloads >>

\* C24: in story_narration, story_narration_audio and story_narration_merged
\* a request without text, with a blank text or without user id is answered
\* with a 400 error object in the step that reads it, with no segment
\* analyzed, no clip synthesized, no history or download row and no file
\* created, and nothing happens for that request afterwards
C24_InputErrorsRejectedFirst == [][C24_Step]_vars

\* story_narration_audio was sent a text without a user id and answered 400
C24_Witness ==
    /\ IsAudio(req[1])
    /\ req[1].pc = "done"
    /\ req[1].data.json
    /\ req[1].data.text = << line_cue_tom >>
    /\ req[1].data.voice = "david"
    /\ req[1].data.user_id = None
    /\ req[1].response = ErrorResponse(400, "User ID is required")
    /\ audio_history = << >>

-----------------------------------------------------------------------------
(* Claims about the records of the audio files                             *)

\* the file exists in audio_files/, has audio in it and was written whole
WrittenWhole(p) ==
    /\ p \in DOMAIN audio_dir
    /\ audio_dir[p] # << >>
    /\ \A k \in DOMAIN audio_dir[p] : "partial" \notin DOMAIN audio_dir[p][k]

\* C30: in story_narration_audio and story_narration_merged every history
\* row marked 'completed' and every download row points to an audio file
\* that the request has written completely
C30_RecordsPointToWrittenFiles ==
    /\ \A k \in DOMAIN audio_history :
          audio_history[k].processing_status = "completed" =>
             WrittenWhole(audio_history[k].audio_file_path)
    /\ \A k \in DOMAIN downloads : WrittenWhole(downloads[k].file_path)

-----------------------------------------------------------------------------
(* story_narration_merged serving two requests at once: app.run (app.py   *)
(* 2230) serves each request in a thread of its own, and the handlers      *)
(* share temp/, audio_files/ and the database.                             *)

Requests == { 1, 2 }

ConcurrentUsers == { "u1", "u2" }

\* the bodies of the concurrent requests: a one-line story and a user id
ConcurrentData ==
    { [ json |-> TRUE, text |-> << line_cue_tom >>, user_id |-> u ] : u \in ConcurrentUsers }

InitConcurrent == AnalyzeInit /\ MergedInit(Requests)

NextConcurrent ==
    \/ \E r \in Requests : ReceiveFrom(r, ConcurrentData) /\ UNCHANGED analyze_vars
    \/ \E r \in Requests : SynthesizeSegment(r) /\ UNCHANGED analyze_vars
    \/ \E r \in Requests : EndCollect(r) /\ UNCHANGED analyze_vars
    \/ \E r \in Requests : MergeLoad(r) /\ UNCHANGED analyze_vars
    \/ \E r \in Requests : MergeExport(r) /\ UNCHANGED analyze_vars
    \/ \E r \in Requests : MergeRecord(r) /\ UNCHANGED analyze_vars
    \/ \E r \in Requests : MergeRespond(r) /\ UNCHANGED analyze_vars
    \/ Tick /\ UNCHANGED analyze_vars

SpecConcurrent == InitConcurrent /\ [][NextConcurrent]_vars

\* the request has answered 200 with the name of its merged file
AssetReturned(q) == q.pc = "done" /\ q.response.status = 200

\* C25: once a merged request has returned its asset, no step of any request
\* (same user and same clock second included) writes to the file of that
\* asset: its content stays what it was when it was returned
C25_ReturnedAssetImmutable ==
    [][ \A r \in DOMAIN req :
           AssetReturned(req[r]) =>
              /\ req[r].merged_file \in DOMAIN audio_dir'
              /\ audio_dir'[req[r].merged_file] = audio_dir[req[r].merged_file] ]_vars

\* the piece of audio is a clip synthesized for request r
OwnClip(piece, r) == "for_req" \in DOMAIN piece /\ piece.for_req = r

\* C26: with two merged requests interleaved, every temp clip a request has
\* written is still there with the request's own audio until its merge has
\* read it, and a merged asset holds only clips synthesized for the segments
\* of its own request
C26_TempClipsAreOwn ==
    \A r \in DOMAIN req : \A q \in { req[r] } :
       /\ q.pc \in { "COLLECTING_SEGMENTS", "MERGING" } =>
             \A k \in DOMAIN q.audio_files :
                /\ q.audio_files[k] \in DOMAIN temp_dir
                /\ OwnClip(temp_dir[q.audio_files[k]], r)
       /\ \A k \in DOMAIN q.merged_audio :
             q.merged_audio[k] = pause \/ OwnClip(q.merged_audio[k], r)

-----------------------------------------------------------------------------
(* Claims about the segments of an accepted request                        *)

\* the request passed the checks of the body, the text and the user id
Accepted(q) == q.text # << >> /\ q.user_id # None

\* C27: a text that is not empty after text.strip() has at least one
\* segment (the segments the handler got for it, or, when the request was
\* rejected for its user id before the analysis, the ones the analysis would
\* give), so story_narration_merged never answers 'No story segments found',
\* and a request that has left the synthesis loop has been through at least
\* one iteration of it
C27_NoStorySegmentsUnreachable ==
    \A r \in DOMAIN req : \A q \in { req[r] } :
       /\ q.response # ErrorResponse(400, "No story segments found")
       /\ (q.text # << >> /\ q.user_id = None) => analyze_story_content(q.text) # << >>
       /\ Accepted(q) => q.segments # << >>
       /\ (Accepted(q) /\ q.pc # "COLLECTING_SEGMENTS") => q.synth_log # << >>

\* a text with a blank line in it was accepted and its loop has started
C27_Witness ==
    /\ req[1].pc = "COLLECTING_SEGMENTS"
    /\ req[1].text = << line_cue_tom, line_blank, line_narration >>
    /\ Len(req[1].segments) = 2
    /\ req[1].i = 1

-----------------------------------------------------------------------------
(* Claims about the labels of unattributed speakers                        *)

\* the loop has just consumed a quoted line with no cue and no attribution
UnattributedStep ==
    /\ Len(lines') = Len(lines) + 1
    /\ Unattributed(StripLine(lines'[Len(lines')]))

C28_Step ==
    UnattributedStep =>
       /\ Len(segments') = Len(segments) + 1
       /\ \E s \in { segments'[Len(segments')] } :
             /\ s.character \notin DOMAIN character_voices
             /\ DOMAIN character_voices' = DOMAIN character_voices \cup { s.character }
             /\ character_voices'[s.character] = s.voice
             /\ \A n \in DOMAIN character_voices : character_voices'[n] = character_voices[n]
             /\ current_voice_index' = current_voice_index + 1
             /\ \A j \in DOMAIN segments : segments[j].character # s.character

\* C28: within one analysis the label given to a quoted line without
\* said/asked/replied attribution is not yet in the binding table: the line
\* adds one binding, advances the voice counter by one, and its label is the
\* label of no earlier segment
C28_GenericLabelIsFresh == [][C28_Step]_vars

\* two consecutive unattributed quoted lines after a speaker named
\* 'Character': three bindings, two different generic labels
C28_Witness ==
    /\ lines = << line_cue_character, line_quote, line_quote >>
    /\ Len(segments) = 3
    /\ segments[2].character = CHARACTER \o SP \o Str(2)
    /\ segments[3].character = CHARACTER \o SP \o Str(3)
    /\ segments[2].voice # segments[3].voice
    /\ Cardinality(DOMAIN character_voices) = 3
    /\ current_voice_index = 4

-----------------------------------------------------------------------------
(* analyze_story_content on lines with two emotion words                   *)

MaxToneLines == 2

\* a word of each tone of the lexicon, and a word of none
ToneWords ==
    { << "h","a","p","p","y" >>, w_sad, << "m","a","d" >>, << "c","a","l","m" >>,
      << "s","c","a","r","e","d" >>, << "p","r","o","u","d" >>, w_tom }

\* narration lines of two different words
ToneLines == { << p[1], SP, p[2] >> : p \in { w \in ToneWords \X ToneWords : w[1] # w[2] } }

ToneStep == Len(lines) < MaxToneLines /\ AnalyzeStep(ToneLines)

NextTone ==
    \/ ToneStep /\ UNCHANGED merged_vars
    \/ AnalyzeReturn /\ UNCHANGED merged_vars

SpecTone == InitAnalyze /\ [][NextTone]_vars

\* the tones in the order of their groups in the lexicon table
ToneOrder == << "cheerful", "sad", "angry", "calm", "suspenseful", "confident" >>

\* the tones of the lexicon keywords that occur in the lowercased text t
TonesIn(t) ==
    { emotion_mapping[k].mapped_tone :
        k \in { j \in DOMAIN emotion_mapping : Contains(t, emotion_mapping[j].emotion) } }

FirstGroupWins(s, l) ==
    StillNeutral(l) =>
       \A present \in { TonesIn(Lower(SpokenText(l))) } :
          Cardinality(present) >= 2 =>
             s.tone = ToneOrder[CHOOSE i \in DOMAIN ToneOrder :
                                  /\ ToneOrder[i] \in present
                                  /\ \A o \in DOMAIN ToneOrder : ToneOrder[o] \in present => i <= o]

\* C29: when the spoken text of a segment that is neutral after
\* classification has keywords of different tones, its tone is the one of
\* these tones whose group comes first in the lexicon (cheerful, sad, angry,
\* calm, suspenseful, confident), wherever the keywords stand in the text
C29_LexiconOrderBeatsPosition == Returned => EverySegment(FirstGroupWins)

\* 'mad sad' and 'sad mad' are both sad; 'proud calm' is calm
C29_Witness ==
    /\ Returned
    /\ lines = << << << "m","a","d" >>, SP, w_sad >>, << w_sad, SP, << "m","a","d" >> >> >>
    /\ segments[1].tone = "sad"
    /\ segments[2].tone = "sad"

====
